---- MODULE Spec2Model ----
(***************************************************************************)
(* Verification model of the render3 runtime pieces of tuan/angular:       *)
(*   - the styling instructions (render3/instructions/styling.ts,          *)
(*     src/unnamed/part_001 lines 1-417) together with the styling context *)
(*     they drive, exercised by the element of the integration tests       *)
(*     "should properly prioritize single/multi style binding collisions"  *)
(*     (src/unnamed/part_000 lines 1922-2148);                             *)
(*   - the view state of render3/state.ts (src/unnamed/part_001 lines      *)
(*     420-815) driving the creation/update passes of the view of          *)
(*     "should not update DOM if context has not changed"                  *)
(*     (src/unnamed/part_000 lines 1371-1418);                             *)
(*   - directive instantiation and directiveInject as exercised by the di  *)
(*     tests (src/packages/compiler-cli/src/ngtsc/typecheck/src/context.ts *)
(*     lines 259-2577), with the Bloom filter tests of the same file       *)
(*     (lines 2406-2481);                                                  *)
(*   - the creation and update passes of template functions with their     *)
(*     cached template data, as exercised by the template tests of         *)
(*     src/unnamed/part_000 (lines 157-172, 2179-2223, 2541-2577);         *)
(*   - the views of a container and their reconciliation with a list       *)
(*     (src/unnamed/part_000, the container tests);                        *)
(*   - the naming of the functions the template compiler emits             *)
(*     (compliance/r3_view_compiler_template_spec.ts) and the order of the *)
(*     styling instructions (compliance/r3_view_compiler_styling_spec.ts); *)
(*   - nextContext() walking the declaration views (part_001 560-720);     *)
(*   - the sanitizer of the element properties (part_000 3090-3225);       *)
(*   - TypeCheckContext.transform (typecheck/src/context.ts 1-250);        *)
(*   - the bindingsEnabled flag of ngNonBindable (part_001 468-534,        *)
(*     part_000 176-275);                                                  *)
(*   - the style binding with a suffix (part_000 1488-1517) and the class  *)
(*     binding with its boolean value (part_001 225-290);                  *)
(*   - the data slots of the pipes of a template                           *)
(*     (compliance/r3_view_compiler_styling_spec.ts 847-948);              *)
(*   - the registration of the styling bindings of an element and of its   *)
(*     directives (part_001 40-135);                                       *)
(*   - the discovery of the LContext of an element, a component or a       *)
(*     directive (part_000 2945-3040);                                     *)
(*   - nested enterView / leaveView calls (part_001 640-770);              *)
(*   - the operations a TypeCheckContext records                           *)
(*     (typecheck/src/context.ts 46-88, 137-145);                          *)
(*   - the map instructions on an element whose directives have a class    *)
(*     or a style input (part_001 309-375, part_000 1688-1798).            *)
(* Each part has its own specification over the shared variables; the      *)
(* variables of the other parts stay at their initial values.              *)
(***************************************************************************)
EXTENDS Integers, Sequences, FiniteSets, TLC

VARIABLES
  pc,                 \* styling: next instruction of the render pass of the element's view
  registry,           \* styling: directive registry of the element's styling context
  slots,              \* styling: value held by each contributor for each property
  forcedBy,           \* styling: contributor whose forceOverride write is in effect, per property
  native,             \* styling: what the host element shows (style values, class list)
  exprs,              \* styling: current values of the bound expressions (ctx.width, ...)
  bindings,           \* styling: the bindings the element's template and directives declare
  important,          \* styling: the contributor compiled with forceOverride (!important)
  everBound,          \* styling: history, a bound value has replaced a static one
  activeHostContext   \* state.ts: directive whose host bindings function is running

stylingVars ==
  <<pc, registry, slots, forcedBy, native, exprs, bindings, important, everBound,
    activeHostContext>>

VARIABLES
  renderStep,             \* views: next step of the render pass of the App component
  lView,                  \* state.ts: the view being processed
  contextLView,           \* state.ts: the view nextContext() walks up from
  previousOrParentTNode,  \* state.ts: node cursor
  isParent,               \* state.ts: whether the cursor is the parent of the next node
  bindingRootIndex,       \* state.ts: binding start index of the view entered last
  views,                  \* views: FLAGS, BINDING_INDEX and binding slots of each LView
  oldView,                \* views: the view saved by the enterView of the running pass
  ctxTitle,               \* views: ctx.title of the App component
  dom,                    \* views: title attribute of the span and the b element
  rendererCalls,          \* views: renderer calls issued since the pass started
  passKind,               \* views: history, "first", "changed" or "unchanged" pass
  lastTitle,              \* views: history, ctx.title when the previous pass started
  manual                  \* views: history, attribute values written from outside

viewVars ==
  <<renderStep, lView, contextLView, previousOrParentTNode, isParent, bindingRootIndex,
    views, oldView, ctxTitle, dom, rendererCalls, passKind, lastTitle, manual>>

VARIABLES
  app,            \* di: the App component under construction
  diStep,         \* di: where the creation of its view stands
  nodeCursor,     \* di: element being created
  dirCursor,      \* di: directive instantiateAllDirectives is at
  nodeInjector,   \* di: per created element, the slot of each of its directives
  stack,          \* di: directive factories in progress, innermost last
  log,            \* di: the directives constructed, with what they were given
  diError         \* di: the error the creation of the view threw

diVars ==
  <<app, diStep, nodeCursor, dirCursor, nodeInjector, stack, log, diError>>

(* The Bloom filter tests: the eight filter words of mockTView.data, and    *)
(* the ids of the tokens that bloomAdd was called with since beforeEach.    *)
VARIABLES
  mockTView,
  bloomAdded

bloomVars == <<mockTView, bloomAdded>>

(* The template tests: a test renders one template function several times.  *)
VARIABLES
  running,        \* templates: the test that runs, i.e. the template it renders
  ctxValue,       \* templates: the context the running render was called with
  templateStep,   \* templates: statement of the template function that runs next
  ngPrivateData,  \* templates: Template.ngPrivateData, the TView cached on the function
  tObjects,       \* templates: the TView and TNode objects allocated, by identity
  hostView,       \* templates: the view renderToHtml keeps between its calls
  lViews,         \* templates: the LView of each view of the template
  globals,        \* state.ts: lView, contextLView, cursor and bindingRootIndex
  patchData,      \* templates: the LView each native element is patched with
  ngDevMode,      \* templates: the counters tView, tNode and rendererSetText
  oldData,        \* templates: the objects the test read after their creation
  firstValue,     \* templates: history, the context of the first render
  viewsLeft       \* templates: history, views that leaveView has been run on

templateVars ==
  <<running, ctxValue, templateStep, ngPrivateData, tObjects, hostView, lViews,
    globals, patchData, ngDevMode, oldData, firstValue, viewsLeft>>

(* The view container tests: one view container and the host node its      *)
(* views are rendered into.                                                 *)
VARIABLES
  vcTest,          \* containers: the test that runs
  lContainer,      \* containers: the views attached to the container, in order
  hostChildren,    \* containers: the nodes rendered at the anchor of the container
  nextViewId,      \* containers: identity of the view that is created next
  destroyedViews,  \* containers: the views that were destroyed
  cmptItems,       \* containers: ctx.items of the component with the ngFor
  cmptValue,       \* containers: ctx.value of the component with the if block
  pendingUpdate,   \* containers: something changed since the last update pass
  insertCount,     \* containers: history, views inserted since the last clear
  prevContainer    \* containers: history, the views attached before the last update pass

containerVars ==
  <<vcTest, lContainer, hostChildren, nextViewId, destroyedViews, cmptItems,
    cmptValue, pendingUpdate, insertCount, prevContainer>>

(* The template compiler: the components handed to compile() and the       *)
(* functions it has emitted so far.                                         *)
VARIABLES
  srcFiles,       \* compiler: the components of the compilation, with their templates
  compUnit,       \* compiler: the component whose template is being compiled
  visitCursor,    \* compiler: the node of the template that is visited next
  dataIndex,      \* compiler: the running slot counter of each template function
  contextName,    \* compiler: the context name of each template function
  resultSource    \* compiler: the functions emitted, in order

compilerVars ==
  <<srcFiles, compUnit, visitCursor, dataIndex, contextName, resultSource>>

(* Context walking: the views of a nested template at run time and the      *)
(* context reads its functions were compiled to.                            *)
VARIABLES
  walkState,      \* context walking: state.ts lView, contextLView and cursor
  savedView,      \* context walking: the view the running block belongs to
  updateBlock,    \* context walking: the nextContext calls still to execute
  contextLog      \* context walking: the variables read so far in the block

contextVars == <<walkState, savedView, updateBlock, contextLog>>

(* Compilation of the styling of one element.                               *)
VARIABLES
  elementAttrs,   \* styling compiler: the attributes and bindings as written
  attrCursor,     \* styling compiler: the attribute that is registered next
  stylingBuilder, \* styling compiler: the inputs registered so far, by kind
  creationInstrs, \* styling compiler: the creation block of the element
  updateInstrs    \* styling compiler: the update block of the element

stylingCompilerVars ==
  <<elementAttrs, attrCursor, stylingBuilder, creationInstrs, updateInstrs>>

(* The sanitization tests: a component with a sanitized property binding,   *)
(* or a directive with a sanitized host binding.                            *)
VARIABLES
  sanTest,        \* sanitization: the test whose fixture exists, or Null
  sanValue,       \* sanitization: the value the binding reads (href, cite)
  sanSlot,        \* sanitization: the binding slot, the value bound last
  hostAttrs       \* sanitization: the attribute of the element in the host

sanitizationVars == <<sanTest, sanValue, sanSlot, hostAttrs>>

(* The template type-checking context of the compiler.                      *)
VARIABLES
  opMap,          \* TypeCheckContext.opMap: the operations pending per source file
  transformResult \* the source file last passed to transform() and its result

typeCheckVars == <<opMap, transformResult>>

(* Directive matching under ngNonBindable.                                  *)
VARIABLES
  componentState, \* state.ts: isParent, previousOrParentTNode, elementDepthCount, bindingsEnabled
  openElements,   \* ngNonBindable: the elements started and not yet ended
  createdElements \* ngNonBindable: the elements created by the creation block

bindingVars == <<componentState, openElements, createdElements>>

(* The style binding with a suffix.                                         *)
VARIABLES
  suffixStyling,  \* suffix test: the styling state of the element
  suffixWrite     \* suffix test: the last elementStyleProp / elementHostStyleProp call

suffixVars == <<suffixStyling, suffixWrite>>

(* The class toggle.                                                        *)
VARIABLES
  toggleStyling,  \* class toggle: the styling state of the element
  toggleWrite     \* class toggle: the last elementClassProp / elementHostClassProp call

toggleVars == <<toggleStyling, toggleWrite>>

(* The pipes of a template.                                                 *)
VARIABLES
  pipeTemplate,   \* pipes: nodes and pipe references visited so far, in visiting order
  dataSlots,      \* pipes: next free data slot of each template function
  pipeCreation,   \* pipes: creation block of each template function
  pipeUpdate      \* pipes: pipeBind calls of the update block of each template function

pipeVars == <<pipeTemplate, dataSlots, pipeCreation, pipeUpdate>>

(* Registration into the styling context of a node.                         *)
VARIABLES
  stylingTNode,    \* registration: stylingTemplate and onElementCreationFns of the element's TNode
  hostDirectives,  \* registration: the directives of the element, in the order of its directive list
  hostRan,         \* registration: host bindings functions run so far, with whether each called elementHostStyling
  elementPhase,    \* registration: "none", "host" (directives being created), "template", "ended"
  templateStyled   \* registration: the template has called elementStyling

registrationVars ==
  <<stylingTNode, hostDirectives, hostRan, elementPhase, templateStyled>>

(* Context discovery.                                                       *)
VARIABLES
  monkeyPatch,   \* discovery: what each target is patched with (nothing, an LView or an LContext)
  lContexts,     \* discovery: the LContext objects created so far; an object is its index
  discoveryLog   \* discovery: the last getLContext call: target, result, state before

discoveryVars == <<monkeyPatch, lContexts, discoveryLog>>

(* Nested enterView / leaveView calls.                                      *)
VARIABLES
  viewState,    \* view stack: lView, contextLView, node cursor, isParent, bindingRootIndex, views
  callers,      \* view stack: per open enterView, the view it returned and the view it entered
  stateLog,     \* view stack: the enterView / leaveView call that has just ended, with the state before it
  hookThrew     \* view stack: history, a view hook has thrown

viewStackVars == <<viewState, callers, stateLog, hookThrew>>

(* Recording type-check operations.                                        *)
VARIABLES
  recordedOps,    \* the opMap of a TypeCheckContext that only records
  recordCalls     \* the addTemplate and addTypeCtor calls made on it, in order

recordingVars == <<recordedOps, recordCalls>>

(* The map instructions on an element whose directives have inputs.         *)
VARIABLES
  inputElement,   \* the element, once created: TNode, styling context, directives' inputs
  mapCall         \* the map instruction that has just run, with its arguments

delegationVars == <<inputElement, mapCall>>

vars ==
  <<stylingVars, viewVars, diVars, bloomVars, templateVars,
    containerVars, compilerVars, contextVars, stylingCompilerVars,
    sanitizationVars, typeCheckVars, bindingVars, suffixVars, toggleVars,
    pipeVars, registrationVars, discoveryVars, viewStackVars,
    recordingVars, delegationVars>>

(* Each part leaves the variables of the other parts alone.                 *)
outsideStyling ==
  <<viewVars, diVars, bloomVars, templateVars, containerVars,
    compilerVars, contextVars, stylingCompilerVars, sanitizationVars,
    typeCheckVars, bindingVars, suffixVars, toggleVars, pipeVars,
    registrationVars, discoveryVars, viewStackVars, recordingVars,
    delegationVars>>

outsideViews ==
  <<stylingVars, diVars, bloomVars, templateVars, containerVars,
    compilerVars, contextVars, stylingCompilerVars, sanitizationVars,
    typeCheckVars, bindingVars, suffixVars, toggleVars, pipeVars,
    registrationVars, discoveryVars, viewStackVars, recordingVars,
    delegationVars>>

outsideDI ==
  <<stylingVars, viewVars, bloomVars, templateVars, containerVars,
    compilerVars, contextVars, stylingCompilerVars, sanitizationVars,
    typeCheckVars, bindingVars, suffixVars, toggleVars, pipeVars,
    registrationVars, discoveryVars, viewStackVars, recordingVars,
    delegationVars>>

outsideBloom ==
  <<stylingVars, viewVars, diVars, templateVars, containerVars,
    compilerVars, contextVars, stylingCompilerVars, sanitizationVars,
    typeCheckVars, bindingVars, suffixVars, toggleVars, pipeVars,
    registrationVars, discoveryVars, viewStackVars, recordingVars,
    delegationVars>>

outsideTemplates ==
  <<stylingVars, viewVars, diVars, bloomVars, containerVars,
    compilerVars, contextVars, stylingCompilerVars, sanitizationVars,
    typeCheckVars, bindingVars, suffixVars, toggleVars, pipeVars,
    registrationVars, discoveryVars, viewStackVars, recordingVars,
    delegationVars>>

outsideContainers ==
  <<stylingVars, viewVars, diVars, bloomVars, templateVars, compilerVars,
    contextVars, stylingCompilerVars, sanitizationVars, typeCheckVars,
    bindingVars, suffixVars, toggleVars, pipeVars, registrationVars,
    discoveryVars, viewStackVars, recordingVars, delegationVars>>

outsideCompiler ==
  <<stylingVars, viewVars, diVars, bloomVars, templateVars,
    containerVars, contextVars, stylingCompilerVars, sanitizationVars,
    typeCheckVars, bindingVars, suffixVars, toggleVars, pipeVars,
    registrationVars, discoveryVars, viewStackVars, recordingVars,
    delegationVars>>

outsideContext ==
  <<stylingVars, viewVars, diVars, bloomVars, templateVars,
    containerVars, compilerVars, stylingCompilerVars, sanitizationVars,
    typeCheckVars, bindingVars, suffixVars, toggleVars, pipeVars,
    registrationVars, discoveryVars, viewStackVars, recordingVars,
    delegationVars>>

outsideStylingCompiler ==
  <<stylingVars, viewVars, diVars, bloomVars, templateVars,
    containerVars, compilerVars, contextVars, sanitizationVars,
    typeCheckVars, bindingVars, suffixVars, toggleVars, pipeVars,
    registrationVars, discoveryVars, viewStackVars, recordingVars,
    delegationVars>>

outsideSanitization ==
  <<stylingVars, viewVars, diVars, bloomVars, templateVars,
    containerVars, compilerVars, contextVars, stylingCompilerVars,
    typeCheckVars, bindingVars, suffixVars, toggleVars, pipeVars,
    registrationVars, discoveryVars, viewStackVars, recordingVars,
    delegationVars>>

outsideTypeCheck ==
  <<stylingVars, viewVars, diVars, bloomVars, templateVars,
    containerVars, compilerVars, contextVars, stylingCompilerVars,
    sanitizationVars, bindingVars, suffixVars, toggleVars, pipeVars,
    registrationVars, discoveryVars, viewStackVars, recordingVars,
    delegationVars>>

outsideBindings ==
  <<stylingVars, viewVars, diVars, bloomVars, templateVars,
    containerVars, compilerVars, contextVars, stylingCompilerVars,
    sanitizationVars, typeCheckVars, suffixVars, toggleVars, pipeVars,
    registrationVars, discoveryVars, viewStackVars, recordingVars,
    delegationVars>>

outsideSuffix ==
  <<stylingVars, viewVars, diVars, bloomVars, templateVars,
    containerVars, compilerVars, contextVars, stylingCompilerVars,
    sanitizationVars, typeCheckVars, bindingVars, toggleVars, pipeVars,
    registrationVars, discoveryVars, viewStackVars, recordingVars,
    delegationVars>>

outsideToggle ==
  <<stylingVars, viewVars, diVars, bloomVars, templateVars,
    containerVars, compilerVars, contextVars, stylingCompilerVars,
    sanitizationVars, typeCheckVars, bindingVars, suffixVars, pipeVars,
    registrationVars, discoveryVars, viewStackVars, recordingVars,
    delegationVars>>

outsidePipes ==
  <<stylingVars, viewVars, diVars, bloomVars, templateVars,
    containerVars, compilerVars, contextVars, stylingCompilerVars,
    sanitizationVars, typeCheckVars, bindingVars, suffixVars, toggleVars,
    registrationVars, discoveryVars, viewStackVars, recordingVars,
    delegationVars>>

outsideRegistration ==
  <<stylingVars, viewVars, diVars, bloomVars, templateVars,
    containerVars, compilerVars, contextVars, stylingCompilerVars,
    sanitizationVars, typeCheckVars, bindingVars, suffixVars, toggleVars,
    pipeVars, discoveryVars, viewStackVars, recordingVars,
    delegationVars>>

outsideDiscovery ==
  <<stylingVars, viewVars, diVars, bloomVars, templateVars,
    containerVars, compilerVars, contextVars, stylingCompilerVars,
    sanitizationVars, typeCheckVars, bindingVars, suffixVars, toggleVars,
    pipeVars, registrationVars, viewStackVars, recordingVars,
    delegationVars>>

outsideViewStack ==
  <<stylingVars, viewVars, diVars, bloomVars, templateVars,
    containerVars, compilerVars, contextVars, stylingCompilerVars,
    sanitizationVars, typeCheckVars, bindingVars, suffixVars, toggleVars,
    pipeVars, registrationVars, discoveryVars, recordingVars,
    delegationVars>>

outsideRecording ==
  <<stylingVars, viewVars, diVars, bloomVars, templateVars,
    containerVars, compilerVars, contextVars, stylingCompilerVars,
    sanitizationVars, typeCheckVars, bindingVars, suffixVars, toggleVars,
    pipeVars, registrationVars, discoveryVars, viewStackVars,
    delegationVars>>

outsideDelegation ==
  <<stylingVars, viewVars, diVars, bloomVars, templateVars,
    containerVars, compilerVars, contextVars, stylingCompilerVars,
    sanitizationVars, typeCheckVars, bindingVars, suffixVars, toggleVars,
    pipeVars, registrationVars, discoveryVars, viewStackVars,
    recordingVars>>

----------------------------------------------------------------------------
(* Values.  JavaScript null and the NO_CHANGE token are modelled as strings *)
(* so that they can be compared with style strings and class flags.         *)

Null == "null"

None == "none"

(* The template writes under the null directive (styling.ts passes          *)
(* `directive || null`); the two directives of the element follow.          *)
Template == Null

Dir1 == "Dir1"

Dir2 == "Dir2"

Contributors == {Template, Dir1, Dir2}

(* Style property bound with [style.width] by the template, Dir1 and Dir2;  *)
(* class `two` bound through the [class] maps of the template and of Dir1;  *)
(* class `xyz` bound with [class.xyz] / @HostBinding('class.xyz').          *)
StyleProps == {"width"}

ClassProps == {"two", "xyz"}

Props == StyleProps \cup ClassProps

(* Values the tests assign to the three width expressions.                  *)
WidthValues(c) ==
  IF c = Template THEN {Null, "999px"}
  ELSE IF c = Dir1 THEN {Null, "222px"}
  ELSE {Null, "333px"}

(* A [class] map holding at most the key `two`: [kind |-> "map", two |-> v] *)
(* with v = null for a missing key; NO_CHANGE and null are the other        *)
(* arguments elementStylingMap accepts.                                     *)
ClassMap(v) == [kind |-> "map", two |-> v]

(* Values bound to [class.xyz]: booleans and null.                          *)
ClassPropValues(c) ==
  IF c = Template THEN {Null, "true", "false"} ELSE {Null, "true"}


NO_CHANGE == [kind |-> "NO_CHANGE", two |-> Null]

NullMap == [kind |-> "null", two |-> Null]

ClassFlagValues(c) ==
  IF c = Template THEN {Null, "true", "false"}
  ELSE IF c = Dir1 THEN {Null, "true"}
  ELSE {Null}

(* Static values: Dir2 sets style="width:111px" with elementHostAttrs, the  *)
(* element carries the static class abc.                                    *)
initialStyles == [p \in StyleProps |-> "111px"]

initialClasses == {"abc"}

(* The binding names passed to elementStyling / elementHostStyling; a       *)
(* styleIndex is a 0-based index into them.                                 *)
styleBindingNames == <<"width">>

classBindingNames == <<"xyz">>

----------------------------------------------------------------------------
(* The styling context (render3/styling/class_and_style_bindings.ts and     *)
(* render3/styling/util.ts).                                                *)

(* createEmptyStylingContext: the template owns the first registry entry.   *)
createEmptyStylingContext == <<Template>>

(* allocateDirectiveIntoContext: a directive is appended once.              *)
allocateDirectiveIntoContext(reg, directive) ==
  IF \E i \in 1..Len(reg) : reg[i] = directive THEN reg
  ELSE Append(reg, directive)

(* A value counts for the merge unless it is null.  A class value of false  *)
(* is a value: it switches the class off and hides lower contributors.      *)
valueExists(v) == v # Null

(* Index of the first contributor, in registry order, that holds a value.   *)
RECURSIVE firstWithValue(_, _, _, _)
firstWithValue(reg, sl, p, i) ==
  IF i > Len(reg) THEN 0
  ELSE IF valueExists(sl[reg[i]][p]) THEN i
  ELSE firstWithValue(reg, sl, p, i + 1)

(* The value of the first contributor that holds one, null when none does. *)
priorityValue(reg, sl, p) ==
  LET i == firstWithValue(reg, sl, p, 1)
  IN IF i = 0 THEN Null ELSE sl[reg[i]][p]

(* The value the merge selects for property p: the value written with       *)
(* forceOverride while it is in effect, else the value by priority.         *)
mergedValue(reg, sl, fb, p) ==
  IF fb[p] # None /\ valueExists(sl[fb[p]][p]) THEN sl[fb[p]][p]
  ELSE priorityValue(reg, sl, p)

(* renderStyling: the merged values are written to the element; a property  *)
(* without any value falls back to its static value.                        *)
renderStyling(st) ==
  [st EXCEPT !.native =
     [style |-> [p \in StyleProps |->
                   LET v == mergedValue(st.registry, st.slots, st.forcedBy, p)
                   IN IF valueExists(v) THEN v ELSE initialStyles[p]],
      classes |-> {c \in ClassProps :
                     LET v == mergedValue(st.registry, st.slots, st.forcedBy, c)
                     IN IF valueExists(v) THEN v = "true" ELSE c \in initialClasses}
                  \cup (initialClasses \ ClassProps)]]

(* updateStyleProp: the contributor's slot receives the value; a            *)
(* forceOverride write is applied at once and stays in effect until the     *)
(* same contributor writes the property without forceOverride.              *)
updateStyleProp(st, p, value, directive, forceOverride) ==
  [st EXCEPT
     !.slots = [@ EXCEPT ![directive][p] = value],
     !.forcedBy = [@ EXCEPT ![p] =
                     IF forceOverride THEN directive
                     ELSE IF @ = directive THEN None ELSE @],
     !.native = IF forceOverride
                  THEN [@ EXCEPT !.style[p] =
                          IF valueExists(value) THEN value ELSE initialStyles[p]]
                  ELSE @]

(* updateClassProp: as updateStyleProp, for a class.                        *)
updateClassProp(st, p, value, directive, forceOverride) ==
  [st EXCEPT
     !.slots = [@ EXCEPT ![directive][p] = value],
     !.forcedBy = [@ EXCEPT ![p] =
                     IF forceOverride THEN directive
                     ELSE IF @ = directive THEN None ELSE @],
     !.native = IF forceOverride
                  THEN [@ EXCEPT !.classes =
                          IF valueExists(value)
                            THEN (IF value = "true" THEN @ \cup {p} ELSE @ \ {p})
                            ELSE (IF p \in initialClasses THEN @ \cup {p} ELSE @ \ {p})]
                  ELSE @]

(* updateStylingMap: each key of the class map is written into the          *)
(* contributor's slot, a key missing from the map is written as null;       *)
(* NO_CHANGE leaves the slot alone.                                         *)
updateStylingMap(st, classes, directive) ==
  IF classes = NO_CHANGE THEN st
  ELSE [st EXCEPT !.slots[directive]["two"] = classes.two]

(* A JavaScript number among the bound values, kept apart from the string   *)
(* of the same digits.                                                      *)
JsNumber(digits) == "Number(" \o digits \o ")"

(* renderStringify (render3/util/misc_utils.ts): a string is returned as    *)
(* it is, a number as its digits.                                           *)
renderStringify(value) ==
  CASE value = JsNumber("0") -> "0"
    [] value = JsNumber("200") -> "200"
    [] OTHER -> value

----------------------------------------------------------------------------
(* The styling instructions (render3/instructions/styling.ts).  `st` is the *)
(* styling state of the element at `index`: [registry, slots, forcedBy,     *)
(* native].                                                                 *)

StylingState == [registry |-> registry, slots |-> slots,
                 forcedBy |-> forcedBy, native |-> native]

elementStyling(st) ==
  [st EXCEPT !.registry =
     IF @ = <<>> THEN createEmptyStylingContext ELSE @]

(* Variant: the directive is registered ahead of the directives already     *)
(* present instead of behind them.                                          *)
elementHostStyling_Prepend(st, directive) ==
  [st EXCEPT !.registry =
     LET reg == IF @ = <<>> THEN createEmptyStylingContext ELSE @
     IN IF \E i \in 1..Len(reg) : reg[i] = directive THEN reg
        ELSE <<reg[1], directive>> \o Tail(reg)]

elementHostStyling(st, directive) ==
  [st EXCEPT !.registry =
     allocateDirectiveIntoContext(
       IF @ = <<>> THEN createEmptyStylingContext ELSE @, directive)]

(* Variant: a null value is not passed on to the styling context.           *)
elementStylePropInternal_SkipNull(st, directive, index, styleIndex, value, suffix, forceOverride) ==
  IF value = Null THEN st
  ELSE updateStyleProp(st, styleBindingNames[styleIndex + 1],
                       IF suffix # "" THEN renderStringify(value) \o suffix ELSE value,
                       directive, forceOverride)

(* Variant: the forceOverride argument is not passed on.                    *)
elementStylePropInternal_NoForce(st, directive, index, styleIndex, value, suffix, forceOverride) ==
  updateStyleProp(st, styleBindingNames[styleIndex + 1],
                  IF value # Null
                    THEN (IF suffix # "" THEN renderStringify(value) \o suffix ELSE value)
                    ELSE Null,
                  directive, FALSE)

(* Variant: the suffix is not appended.                                      *)
elementStylePropInternal_RawValue(st, directive, index, styleIndex, value, suffix, forceOverride) ==
  updateStyleProp(st, styleBindingNames[styleIndex + 1], value, directive,
                  forceOverride)

elementStylePropInternal(st, directive, index, styleIndex, value, suffix, forceOverride) ==
  LET valueToAdd ==
        IF value # Null
          THEN (IF suffix # "" THEN renderStringify(value) \o suffix ELSE value)
          ELSE Null
  IN updateStyleProp(st, styleBindingNames[styleIndex + 1], valueToAdd,
                     directive, forceOverride)

elementStyleProp(st, index, styleIndex, value, suffix, forceOverride) ==
  elementStylePropInternal(st, Null, index, styleIndex, value, suffix, forceOverride)

(* Variant: the host instruction writes under the template's (null)        *)
(* directive instead of the active host directive.                          *)
elementHostStyleProp_NullDirective(st, styleIndex, value, suffix, forceOverride) ==
  elementStylePropInternal(st, Null, 0, styleIndex, value, suffix, forceOverride)

elementHostStyleProp(st, styleIndex, value, suffix, forceOverride) ==
  elementStylePropInternal(st, activeHostContext, 0, styleIndex, value, suffix,
                           forceOverride)

(* The value undefined.                                                     *)
Undefined == "undefined"

(* The falsy values that are not the boolean false: null, undefined, the    *)
(* empty string and the number 0.                                           *)
Falsy == {Null, Undefined, "", JsNumber("0")}

(* Variant: every falsy value, the boolean false among them, becomes null.  *)
booleanOrNull_FalseAsNull(value) ==
  IF value = "true" THEN value
  ELSE IF value \notin Falsy \cup {"false"} THEN "true" ELSE Null

(* The booleans are "true" and "false".                                     *)
booleanOrNull(value) ==
  IF value \in {"true", "false"} THEN value
  ELSE IF value \notin Falsy THEN "true" ELSE Null

elementClassPropInternal(st, directive, index, classIndex, value, forceOverride) ==
  updateClassProp(st, classBindingNames[classIndex + 1], booleanOrNull(value),
                  directive, forceOverride)

elementClassProp(st, index, classIndex, value, forceOverride) ==
  elementClassPropInternal(st, Null, index, classIndex, value, forceOverride)

elementHostClassProp(st, classIndex, value, forceOverride) ==
  elementClassPropInternal(st, activeHostContext, 0, classIndex, value, forceOverride)

elementStylingMapInternal(st, directive, index, classes) ==
  updateStylingMap(st, classes, directive)

elementStylingMap(st, index, classes) ==
  elementStylingMapInternal(st, Null, index, classes)

(* Variant: the host map instruction writes under the template's (null)    *)
(* directive instead of the active host directive.                          *)
elementHostStylingMap_NullDirective(st, classes) ==
  elementStylingMapInternal(st, Null, 0, classes)

elementHostStylingMap(st, classes) ==
  elementStylingMapInternal(st, activeHostContext, 0, classes)

elementStylingApplyInternal(st, directive, index) == renderStyling(st)

elementStylingApply(st, index) == elementStylingApplyInternal(st, Null, index)

elementHostStylingApply(st) ==
  elementStylingApplyInternal(st, activeHostContext, 0)

----------------------------------------------------------------------------
(* An element <div Dir1 Dir2 class="abc" ...> and its render passes.  The   *)
(* first render runs the creation block and then the update block; every    *)
(* later pass (tick) runs the update block of the template and then the     *)
(* host bindings of Dir1 and Dir2, in the order of the element's directive  *)
(* list.  Each contributor's update block is: map instruction, style        *)
(* property, class property, apply; an instruction is present only when the *)
(* contributor declares that binding.                                       *)

Commit(st) ==
  /\ registry' = st.registry
  /\ slots' = st.slots
  /\ forcedBy' = st.forcedBy
  /\ native' = st.native
  /\ everBound' = (everBound \/ st.native.style["width"] \notin {Null, initialStyles["width"]})

(* The directives of the element in the order of its directive list.        *)
directiveList == <<Dir1, Dir2>>

(* The compiled elements under test: the element of the style collision     *)
(* tests ([style.width] on the template and both directives, [class] maps   *)
(* on the template and Dir1, a null [class] map on Dir2), and an element    *)
(* with a [class.xyz] binding on the template and on both directives.       *)
StyleElement ==
  [styleProp |-> Contributors, classMap |-> Contributors, classProp |-> {}]

ClassPropElement ==
  [styleProp |-> {}, classMap |-> {}, classProp |-> Contributors]

(* The [class] argument each contributor passes: Dir2 passes null.          *)
classesArg(c) == IF c = Dir2 THEN NullMap ELSE ClassMap(exprs[c].two)

(* element(0, 'div', [..., Classes, 'abc']): the static class is set.       *)
ElementStart ==
  /\ pc = "create"
  /\ pc' = "c_host"
  /\ native' = [native EXCEPT !.classes = initialClasses]
  /\ activeHostContext' = directiveList[1]
  /\ UNCHANGED <<registry, slots, forcedBy, exprs, bindings, important, everBound>>
  /\ UNCHANGED outsideStyling

(* Creation block of a directive's hostBindings: Dir2 first sets the static *)
(* width with elementHostAttrs; both call elementHostStyling.               *)
HostBindings_Create ==
  /\ pc = "c_host"
  /\ LET d == activeHostContext
         st0 == IF d = Dir2
                  THEN [StylingState EXCEPT !.native.style = initialStyles]
                  ELSE StylingState
     IN /\ Commit(elementHostStyling(st0, d))
        /\ IF d = directiveList[1]
             THEN pc' = "c_host" /\ activeHostContext' = directiveList[2]
             ELSE pc' = "c_tpl" /\ activeHostContext' = Null
  /\ UNCHANGED <<exprs, bindings, important>>
  /\ UNCHANGED outsideStyling

(* Creation block of the template: elementStyling(...).                     *)
Template_elementStyling ==
  /\ pc = "c_tpl"
  /\ pc' = "u_tpl_map"
  /\ Commit(elementStyling(StylingState))
  /\ UNCHANGED <<exprs, bindings, important, activeHostContext>>
  /\ UNCHANGED outsideStyling

(* Update block of the template.                                            *)
Template_elementStylingMap ==
  /\ pc = "u_tpl_map"
  /\ pc' = "u_tpl_style"
  /\ Commit(IF Template \in bindings.classMap
              THEN elementStylingMap(StylingState, 0, classesArg(Template))
              ELSE StylingState)
  /\ UNCHANGED <<exprs, bindings, important, activeHostContext>>
  /\ UNCHANGED outsideStyling

Template_elementStyleProp ==
  /\ pc = "u_tpl_style"
  /\ pc' = "u_tpl_class"
  /\ Commit(IF Template \in bindings.styleProp
              THEN elementStyleProp(StylingState, 0, 0, exprs[Template].width, "",
                                    important = Template)
              ELSE StylingState)
  /\ UNCHANGED <<exprs, bindings, important, activeHostContext>>
  /\ UNCHANGED outsideStyling

Template_elementClassProp ==
  /\ pc = "u_tpl_class"
  /\ pc' = "u_tpl_apply"
  /\ Commit(IF Template \in bindings.classProp
              THEN elementClassProp(StylingState, 0, 0, exprs[Template].xyz,
                                    important = Template)
              ELSE StylingState)
  /\ UNCHANGED <<exprs, bindings, important, activeHostContext>>
  /\ UNCHANGED outsideStyling

Template_elementStylingApply ==
  /\ pc = "u_tpl_apply"
  /\ pc' = "u_host"
  /\ Commit(elementStylingApply(StylingState, 0))
  /\ UNCHANGED <<exprs, bindings, important, activeHostContext>>
  /\ UNCHANGED outsideStyling

(* state.ts setActiveHost, called before and after the host bindings        *)
(* functions of the element's directives run.                               *)
setActiveHost ==
  /\ pc = "u_host"
  /\ IF activeHostContext = Null
       THEN activeHostContext' = directiveList[1] /\ pc' = "u_h_map"
       ELSE IF activeHostContext = directiveList[1]
         THEN activeHostContext' = directiveList[2] /\ pc' = "u_h_map"
         ELSE activeHostContext' = Null /\ pc' = "checked"
  /\ UNCHANGED <<registry, slots, forcedBy, native, exprs, bindings, important,
                 everBound>>
  /\ UNCHANGED outsideStyling

(* Update block of the hostBindings function of the active directive.       *)
Host_elementHostStylingMap ==
  /\ pc = "u_h_map"
  /\ pc' = "u_h_style"
  /\ Commit(IF activeHostContext \in bindings.classMap
              THEN elementHostStylingMap(StylingState, classesArg(activeHostContext))
              ELSE StylingState)
  /\ UNCHANGED <<exprs, bindings, important, activeHostContext>>
  /\ UNCHANGED outsideStyling

Host_elementHostStyleProp ==
  /\ pc = "u_h_style"
  /\ pc' = "u_h_class"
  /\ Commit(IF activeHostContext \in bindings.styleProp
              THEN elementHostStyleProp(StylingState, 0, exprs[activeHostContext].width,
                                        "", important = activeHostContext)
              ELSE StylingState)
  /\ UNCHANGED <<exprs, bindings, important, activeHostContext>>
  /\ UNCHANGED outsideStyling

Host_elementHostClassProp ==
  /\ pc = "u_h_class"
  /\ pc' = "u_h_apply"
  /\ Commit(IF activeHostContext \in bindings.classProp
              THEN elementHostClassProp(StylingState, 0, exprs[activeHostContext].xyz,
                                        important = activeHostContext)
              ELSE StylingState)
  /\ UNCHANGED <<exprs, bindings, important, activeHostContext>>
  /\ UNCHANGED outsideStyling

Host_elementHostStylingApply ==
  /\ pc = "u_h_apply"
  /\ pc' = "u_host"
  /\ Commit(elementHostStylingApply(StylingState))
  /\ UNCHANGED <<exprs, bindings, important, activeHostContext>>
  /\ UNCHANGED outsideStyling

(* The application assigns a bound expression between two passes.           *)
SetWidth ==
  /\ pc \in {"checked", "changed"}
  /\ \E c \in bindings.styleProp : \E v \in WidthValues(c) :
       /\ v # exprs[c].width
       /\ exprs' = [exprs EXCEPT ![c].width = v]
  /\ pc' = "changed"
  /\ UNCHANGED <<registry, slots, forcedBy, native, bindings, important, everBound,
                 activeHostContext>>
  /\ UNCHANGED outsideStyling

SetClassesExp ==
  /\ pc \in {"checked", "changed"}
  /\ \E c \in bindings.classMap : \E v \in ClassFlagValues(c) :
       /\ v # exprs[c].two
       /\ exprs' = [exprs EXCEPT ![c].two = v]
  /\ pc' = "changed"
  /\ UNCHANGED <<registry, slots, forcedBy, native, bindings, important, everBound,
                 activeHostContext>>
  /\ UNCHANGED outsideStyling

SetClassProp ==
  /\ pc \in {"checked", "changed"}
  /\ \E c \in bindings.classProp : \E v \in ClassPropValues(c) :
       /\ v # exprs[c].xyz
       /\ exprs' = [exprs EXCEPT ![c].xyz = v]
  /\ pc' = "changed"
  /\ UNCHANGED <<registry, slots, forcedBy, native, bindings, important, everBound,
                 activeHostContext>>
  /\ UNCHANGED outsideStyling

(* fixture.update(): the next update pass starts.                           *)
Tick ==
  /\ pc \in {"checked", "changed"}
  /\ pc' = "u_tpl_map"
  /\ UNCHANGED <<registry, slots, forcedBy, native, exprs, bindings, important,
                 everBound, activeHostContext>>
  /\ UNCHANGED outsideStyling

StylingNext ==
  \/ ElementStart
  \/ HostBindings_Create
  \/ Template_elementStyling
  \/ Template_elementStylingMap
  \/ Template_elementStyleProp
  \/ Template_elementClassProp
  \/ Template_elementStylingApply
  \/ setActiveHost
  \/ Host_elementHostStylingMap
  \/ Host_elementHostStyleProp
  \/ Host_elementHostClassProp
  \/ Host_elementHostStylingApply
  \/ SetWidth
  \/ SetClassesExp
  \/ SetClassProp
  \/ Tick

----------------------------------------------------------------------------
(* The view state of render3/state.ts and the render passes of the App      *)
(* component of "should not update DOM if context has not changed":         *)
(*   <span [attr.title]="title"> % if (true) { <b [attr.title]="title"> }   *)

AppView == "app"

EmbeddedView == "emb"

ViewIds == {AppView, EmbeddedView}

NotCreated == "notCreated"

Titles == {Null, "Hello", "World"}

(* createComponent('app', ..., 2, 1) and embeddedViewStart(1, 1, 1): the    *)
(* bindings of a view start behind its nodes.  The views of the template    *)
(* tests: StructuredComp has consts 2 and vars 0, renderToHtml(Template,    *)
(* 'once', 1, 1) has one node and one binding, the template of the          *)
(* template data test and its embeddedViewStart(0, 1, 0) one node each.     *)
tView(view) ==
  CASE view = AppView -> [bindingStartIndex |-> 2, vars |-> 1]
    [] view = EmbeddedView -> [bindingStartIndex |-> 1, vars |-> 1]
    [] view = "StructuredComp" -> [bindingStartIndex |-> 2, vars |-> 0]
    [] view = "CreationText" -> [bindingStartIndex |-> 1, vars |-> 1]
    [] OTHER -> [bindingStartIndex |-> 1, vars |-> 0]

(* createLView: a new view is in creation mode, its binding slots hold      *)
(* NO_CHANGE.                                                               *)
createLView(view) ==
  [flags |-> {"CreationMode", "FirstLViewPass", "CheckAlways"},
   bindingIndex |-> tView(view).bindingStartIndex,
   bindings |-> [i \in 1..tView(view).vars |-> "NO_CHANGE"],
   created |-> TRUE]

ViewState ==
  [lView |-> lView, contextLView |-> contextLView,
   previousOrParentTNode |-> previousOrParentTNode, isParent |-> isParent,
   bindingRootIndex |-> bindingRootIndex, views |-> views,
   dom |-> dom, rendererCalls |-> rendererCalls]

(* Variant: the test looks at the FirstLViewPass flag.                      *)
isCreationMode_FirstLViewPass(s, view) == "FirstLViewPass" \in s.views[view].flags

isCreationMode(s, view) == "CreationMode" \in s.views[view].flags

(* Variant: the node cursor and isParent are left as they are.              *)
enterView_KeepCursor(s, newView, hostTNode) ==
  [s EXCEPT
     !.bindingRootIndex = IF newView # Null THEN tView(newView).bindingStartIndex ELSE @,
     !.lView = newView,
     !.contextLView = newView]

(* const oldView = lView; ... return oldView.                               *)
enterView_return(s) == s.lView

enterView(s, newView, hostTNode) ==
  [s EXCEPT
     !.bindingRootIndex = IF newView # Null THEN tView(newView).bindingStartIndex ELSE @,
     !.previousOrParentTNode = hostTNode,
     !.isParent = TRUE,
     !.lView = newView,
     !.contextLView = newView]

(* Variant: the CreationMode flag survives the first leaveView.             *)
leaveView_KeepCreationMode(s, newView) ==
  enterView(
    IF isCreationMode(s, s.lView) THEN s
    ELSE [s EXCEPT !.views[s.lView].flags = @ \ {"Dirty", "FirstLViewPass"},
                   !.views[s.lView].bindingIndex = tView(s.lView).bindingStartIndex],
    newView, Null)

(* Variant: without the finally block, a throwing hook leaves the flags     *)
(* and the binding index as they are.                                       *)
leaveViewImpl_NoFinally(s, newView, hookThrows) ==
  IF isCreationMode(s, s.lView)
    THEN [state |-> enterView([s EXCEPT !.views[s.lView].flags = @ \ {"CreationMode"}],
                              newView, Null),
          thrown |-> FALSE]
    ELSE IF hookThrows THEN [state |-> s, thrown |-> TRUE]
    ELSE [state |->
            enterView([s EXCEPT !.views[s.lView].flags = @ \ {"Dirty", "FirstLViewPass"},
                                !.views[s.lView].bindingIndex =
                                  tView(s.lView).bindingStartIndex],
                      newView, Null),
          thrown |-> FALSE]

(* leaveView with view hooks that may throw: executeHooks runs inside try,  *)
(* the flags and the binding index are reset in finally, and                *)
(* enterView(newView, null) is reached only when nothing was thrown.        *)
(* `thrown` tells whether the error leaves the call.                        *)
leaveViewImpl(s, newView, hookThrows) ==
  IF isCreationMode(s, s.lView)
    THEN [state |-> enterView([s EXCEPT !.views[s.lView].flags = @ \ {"CreationMode"}],
                              newView, Null),
          thrown |-> FALSE]
    ELSE LET checked ==
               [s EXCEPT !.views[s.lView].flags = @ \ {"Dirty", "FirstLViewPass"},
                         !.views[s.lView].bindingIndex =
                           tView(s.lView).bindingStartIndex]
         IN IF hookThrows THEN [state |-> checked, thrown |-> TRUE]
            ELSE [state |-> enterView(checked, newView, Null), thrown |-> FALSE]

(* The view has no view hooks, executeHooks does nothing.                   *)
leaveView(s, newView) ==
  enterView(
    IF isCreationMode(s, s.lView)
      THEN [s EXCEPT !.views[s.lView].flags = @ \ {"CreationMode"}]
      ELSE [s EXCEPT !.views[s.lView].flags = @ \ {"Dirty", "FirstLViewPass"},
                     !.views[s.lView].bindingIndex = tView(s.lView).bindingStartIndex],
    newView, Null)

(* refreshDescendantViews: the binding cursor of the view returns to its    *)
(* start once the template function has run.                                *)
refreshDescendantViews(s, view) ==
  [s EXCEPT !.views[view].bindingIndex = tView(view).bindingStartIndex]

(* bind(value): compares the value with the one stored at the binding       *)
(* cursor, stores it when it differs, and advances the cursor.  `ret` is    *)
(* the value or NO_CHANGE.                                                  *)
bind(s, value) ==
  LET v == s.lView
      i == s.views[v].bindingIndex - tView(v).bindingStartIndex + 1
      changed == s.views[v].bindings[i] # value
  IN [state |-> [s EXCEPT !.views[v].bindingIndex = @ + 1,
                          !.views[v].bindings[i] = value],
      ret |-> IF changed THEN value ELSE "NO_CHANGE"]

(* elementAttribute(index, name, value): nothing reaches the renderer on    *)
(* NO_CHANGE; null removes the attribute.                                   *)
elementAttribute(s, el, value) ==
  IF value = "NO_CHANGE" THEN s
  ELSE [s EXCEPT !.dom[el] = value, !.rendererCalls = @ + 1]

(* elementStart(index, name): the renderer creates and appends the element. *)
elementStart(s, el) ==
  [s EXCEPT !.dom[el] = Null, !.rendererCalls = @ + 1]

CommitView(s) ==
  /\ lView' = s.lView
  /\ contextLView' = s.contextLView
  /\ previousOrParentTNode' = s.previousOrParentTNode
  /\ isParent' = s.isParent
  /\ bindingRootIndex' = s.bindingRootIndex
  /\ views' = s.views
  /\ dom' = s.dom
  /\ rendererCalls' = s.rendererCalls

(* fixture.update(): the App view is entered and its template runs.         *)
Update ==
  /\ renderStep = "idle"
  /\ oldView' = lView
  /\ CommitView([enterView(ViewState, AppView, "appHost") EXCEPT !.rendererCalls = 0])
  /\ renderStep' = IF isCreationMode(ViewState, AppView) THEN "app_create" ELSE "app_update"
  /\ passKind' = IF lastTitle = None THEN "first"
                 ELSE IF lastTitle = ctxTitle THEN "unchanged" ELSE "changed"
  /\ lastTitle' = ctxTitle
  /\ manual' = IF lastTitle = ctxTitle THEN manual ELSE [el \in {"span", "b"} |-> None]
  /\ UNCHANGED ctxTitle
  /\ UNCHANGED outsideViews

(* if (rf & RenderFlags.Create) { elementStart(0, 'span'); container(1); }  *)
App_Create ==
  /\ renderStep = "app_create"
  /\ CommitView(elementStart(ViewState, "span"))
  /\ renderStep' = "app_update"
  /\ UNCHANGED <<oldView, ctxTitle, passKind, lastTitle, manual>>
  /\ UNCHANGED outsideViews

(* elementAttribute(0, 'title', bind(ctx.title));                           *)
App_Update ==
  /\ renderStep = "app_update"
  /\ LET b == bind(ViewState, ctxTitle)
     IN CommitView(elementAttribute(b.state, "span", b.ret))
  /\ renderStep' = "app_container"
  /\ UNCHANGED <<oldView, ctxTitle, passKind, lastTitle, manual>>
  /\ UNCHANGED outsideViews

(* containerRefreshStart(1); embeddedViewStart(1, 1, 1): the embedded view  *)
(* is created on its first pass and entered.                                *)
embeddedViewStart ==
  /\ renderStep = "app_container"
  /\ LET s0 == IF views[EmbeddedView].created THEN ViewState
               ELSE [ViewState EXCEPT !.views[EmbeddedView] = createLView(EmbeddedView)]
     IN /\ CommitView(enterView(s0, EmbeddedView, "embeddedViewNode"))
        /\ renderStep' = IF isCreationMode(s0, EmbeddedView) THEN "emb_create"
                         ELSE "emb_update"
  /\ UNCHANGED <<oldView, ctxTitle, passKind, lastTitle, manual>>
  /\ UNCHANGED outsideViews

(* if (rf1 & RenderFlags.Create) { elementStart(0, 'b'); elementEnd(); }    *)
Embedded_Create ==
  /\ renderStep = "emb_create"
  /\ CommitView(elementStart(ViewState, "b"))
  /\ renderStep' = "emb_update"
  /\ UNCHANGED <<oldView, ctxTitle, passKind, lastTitle, manual>>
  /\ UNCHANGED outsideViews

(* if (rf1 & RenderFlags.Update) { elementAttribute(0, 'title', bind(..)) } *)
Embedded_Update ==
  /\ renderStep = "emb_update"
  /\ LET b == bind(ViewState, ctxTitle)
     IN CommitView(elementAttribute(b.state, "b", b.ret))
  /\ renderStep' = "emb_end"
  /\ UNCHANGED <<oldView, ctxTitle, passKind, lastTitle, manual>>
  /\ UNCHANGED outsideViews

(* embeddedViewEnd(): the embedded view is left for the App view.           *)
embeddedViewEnd ==
  /\ renderStep = "emb_end"
  /\ CommitView(leaveView(refreshDescendantViews(ViewState, lView), AppView))
  /\ renderStep' = "app_end"
  /\ UNCHANGED <<oldView, ctxTitle, passKind, lastTitle, manual>>
  /\ UNCHANGED outsideViews

(* containerRefreshEnd() and the end of the pass: leaveView(oldView).       *)
EndUpdate ==
  /\ renderStep = "app_end"
  /\ CommitView(leaveView(refreshDescendantViews(ViewState, lView), oldView))
  /\ renderStep' = "idle"
  /\ UNCHANGED <<oldView, ctxTitle, passKind, lastTitle, manual>>
  /\ UNCHANGED outsideViews

(* fixture.component.title = v                                              *)
SetTitle ==
  /\ renderStep = "idle"
  /\ \E v \in Titles : v # ctxTitle /\ ctxTitle' = v
  /\ UNCHANGED <<renderStep, lView, contextLView, previousOrParentTNode, isParent,
                 bindingRootIndex, views, oldView, dom, rendererCalls, passKind,
                 lastTitle, manual>>
  /\ UNCHANGED outsideViews

(* fixture.hostElement.querySelector(el).setAttribute('title', 'Goodbye')   *)
ManualSetAttribute ==
  /\ renderStep = "idle"
  /\ \E el \in {"span", "b"} :
       /\ dom[el] # NotCreated
       /\ manual[el] = None
       /\ dom' = [dom EXCEPT ![el] = "Goodbye"]
       /\ manual' = [manual EXCEPT ![el] = "Goodbye"]
  /\ UNCHANGED <<renderStep, lView, contextLView, previousOrParentTNode, isParent,
                 bindingRootIndex, views, oldView, ctxTitle, rendererCalls, passKind,
                 lastTitle>>
  /\ UNCHANGED outsideViews

ViewNext ==
  \/ Update
  \/ App_Create
  \/ App_Update
  \/ embeddedViewStart
  \/ Embedded_Create
  \/ Embedded_Update
  \/ embeddedViewEnd
  \/ EndUpdate
  \/ SetTitle
  \/ ManualSetAttribute

----------------------------------------------------------------------------
(* Directive instantiation and directiveInject, on the App components of    *)
(* the di tests.  An App is its elements (parent element, directives in the *)
(* order they match), the dependencies each directive factory injects, and  *)
(* the module injector the fixture is given.                                *)

DirectiveTypes ==
  {"Comp", "DirA", "DirB", "DirC", "DirD", "Dir", "OtherDir", "DirString", "DirComp", "NgIf",
   "StructuralDir", "GroupDirective", "ControlNameDirective", "ChildComponent", "App"}

(* Every token of the tests, in the order nextNgElementId numbers them.    *)
TokenOrder ==
  <<"Comp", "DirA", "DirB", "DirC", "DirD", "Dir", "OtherDir", "DirString", "DirComp",
    "NgIf", "StructuralDir", "GroupDirective", "ControlNameDirective", "ChildComponent",
    "String", "ControlContainer", "App">>

Dep(token, flags) == [token |-> token, flags |-> flags]

NoDeps == [t \in DirectiveTypes |-> <<>>]

TNode(parent, dirs) == [parent |-> parent, dirs |-> dirs]

NoInjector == [present |-> FALSE, provides |-> {}]

(* A node of a view other than the view of the App.                         *)
ViewTNode(view, parent, dirs) == [parent |-> parent, dirs |-> dirs, view |-> view]

(* A container node: the anchor of embedded views.                          *)
TContainerNode(view, parent, dirs) ==
  [parent |-> parent, dirs |-> dirs, view |-> view, type |-> "Container"]

(* {provide: token, useValue: ...} has no useExisting.                      *)
Provider(provide, useExisting) == [provide |-> provide, useExisting |-> useExisting]

(* An element of the view of the App with the providers and viewProviders   *)
(* that its directives bring.                                               *)
HostTNode(parent, dirs, providers, viewProviders) ==
  [parent |-> parent, dirs |-> dirs, providers |-> providers,
   viewProviders |-> viewProviders]

(* The view of the component on element hostNode.                           *)
ComponentLView(hostNode) == [type |-> "component", hostNode |-> hostNode]

(* An embedded view declared at container hostNode and inserted at the      *)
(* container insertedAt.                                                    *)
EmbeddedLView(hostNode, insertedAt) ==
  [type |-> "embedded", hostNode |-> hostNode, insertedAt |-> insertedAt]

(* <div dirA><span dirB dirC></span></div>                                  *)
App_IntraView ==
  [nodes |-> <<TNode(0, <<"DirA">>), TNode(1, <<"DirB", "DirC">>)>>,
   factories |-> [NoDeps EXCEPT !["DirC"] = <<Dep("DirA", {}), Dep("DirB", {})>>],
   injector |-> NoInjector]

(* Variant: the factory of DirA injects nothing.                            *)
App_DependencyOrder_NoInjection ==
  [nodes |-> <<TNode(0, <<"DirA", "DirB">>)>>,
   factories |-> NoDeps,
   injector |-> NoInjector]

(* <div dirA dirB></div>                                                    *)
App_DependencyOrder ==
  [nodes |-> <<TNode(0, <<"DirA", "DirB">>)>>,
   factories |-> [NoDeps EXCEPT !["DirA"] = <<Dep("DirB", {})>>],
   injector |-> NoInjector]

(* <div dirB></div><div dirA></div> with a module injector that answers    *)
(* every token.                                                             *)
App_ModuleFallback ==
  [nodes |-> <<TNode(0, <<"DirB">>), TNode(0, <<"DirA">>)>>,
   factories |-> [NoDeps EXCEPT !["DirA"] = <<Dep("DirB", {})>>],
   injector |-> [present |-> TRUE, provides |-> DirectiveTypes]]

(* % for(let i = 0; i < 3; i++) { <div dirA dirB></div> % }                 *)
App_ForLoop ==
  [nodes |-> <<TNode(0, <<"DirA", "DirB">>), TNode(0, <<"DirA", "DirB">>),
               TNode(0, <<"DirA", "DirB">>)>>,
   factories |-> [NoDeps EXCEPT !["DirA"] = <<Dep("DirB", {})>>],
   injector |-> NoInjector]

(* <div dirA dirB dirC></div>                                               *)
App_OutOfOrder ==
  [nodes |-> <<TNode(0, <<"DirA", "DirB", "DirC">>)>>,
   factories |-> [NoDeps EXCEPT !["DirB"] = <<Dep("DirA", {}), Dep("DirC", {})>>],
   injector |-> NoInjector]

(* <comp dirA dirB dirC dirD></comp>                                        *)
App_Complex ==
  [nodes |-> <<TNode(0, <<"Comp", "DirA", "DirB", "DirC", "DirD">>)>>,
   factories |-> [NoDeps EXCEPT !["Comp"] = <<Dep("DirD", {})>>,
                                !["DirA"] = <<Dep("DirC", {})>>,
                                !["DirC"] = <<Dep("DirB", {})>>,
                                !["DirD"] = <<Dep("DirA", {})>>],
   injector |-> NoInjector]

(* <div dir></div>, OtherDir registered with the App but on no element.     *)
App_NotFound ==
  [nodes |-> <<TNode(0, <<"Dir">>)>>,
   factories |-> [NoDeps EXCEPT !["Dir"] = <<Dep("OtherDir", {})>>],
   injector |-> NoInjector]

(* Variant: the second element is a child of the first.                     *)
App_NotFoundInAncestors_Nested ==
  [nodes |-> <<TNode(0, <<"OtherDir">>), TNode(1, <<"Dir">>)>>,
   factories |-> [NoDeps EXCEPT !["Dir"] = <<Dep("OtherDir", {})>>],
   injector |-> NoInjector]

(* <div other></div><div dir></div>                                         *)
App_NotFoundInAncestors ==
  [nodes |-> <<TNode(0, <<"OtherDir">>), TNode(0, <<"Dir">>)>>,
   factories |-> [NoDeps EXCEPT !["Dir"] = <<Dep("OtherDir", {})>>],
   injector |-> NoInjector]

(* Variant: the factory of DirB injects nothing.                            *)
App_InjectEachOther_OneWay ==
  [nodes |-> <<TNode(0, <<"DirA", "DirB">>)>>,
   factories |-> [NoDeps EXCEPT !["DirA"] = <<Dep("DirB", {})>>],
   injector |-> NoInjector]

(* <div dirA dirB></div>, DirA and DirB injecting each other.               *)
App_InjectEachOther ==
  [nodes |-> <<TNode(0, <<"DirA", "DirB">>)>>,
   factories |-> [NoDeps EXCEPT !["DirA"] = <<Dep("DirB", {})>>,
                                !["DirB"] = <<Dep("DirA", {})>>],
   injector |-> NoInjector]

(* <div dir></div>, Dir injecting Dir.                                      *)
App_InjectItself ==
  [nodes |-> <<TNode(0, <<"Dir">>)>>,
   factories |-> [NoDeps EXCEPT !["Dir"] = <<Dep("Dir", {})>>],
   injector |-> NoInjector]

(* <div dirA></div>, DirA(@Optional() DirB), no module injector.            *)
App_OptionalLimpMode ==
  [nodes |-> <<TNode(0, <<"DirA">>)>>,
   factories |-> [NoDeps EXCEPT !["DirA"] = <<Dep("DirB", {"Optional"})>>],
   injector |-> NoInjector]

(* The same with createInjector(SomeModule), which provides no DirB.        *)
App_OptionalModuleInjector ==
  [nodes |-> <<TNode(0, <<"DirA">>)>>,
   factories |-> [NoDeps EXCEPT !["DirA"] = <<Dep("DirB", {"Optional"})>>],
   injector |-> [present |-> TRUE, provides |-> {}]]

(* Variant: the factory of DirC passes InjectFlags.Self only.               *)
App_OptionalSelf_NotOptional ==
  [nodes |-> <<TNode(0, <<"DirC">>)>>,
   factories |-> [NoDeps EXCEPT !["DirC"] = <<Dep("DirB", {"Self"})>>],
   injector |-> NoInjector]

(* <div dirC></div>, DirC(@Optional() @Self() DirB).                        *)
App_OptionalSelf ==
  [nodes |-> <<TNode(0, <<"DirC">>)>>,
   factories |-> [NoDeps EXCEPT !["DirC"] = <<Dep("DirB", {"Optional", "Self"})>>],
   injector |-> NoInjector]

(* <div dirB></div><div dirA></div>, DirA(@Optional() DirB).                *)
App_OptionalDefinedElsewhere ==
  [nodes |-> <<TNode(0, <<"DirB">>), TNode(0, <<"DirA">>)>>,
   factories |-> [NoDeps EXCEPT !["DirA"] = <<Dep("DirB", {"Optional"})>>],
   injector |-> NoInjector]

(* Variant: the factory of DirA passes no flags.                            *)
App_Self_NoFlags ==
  [nodes |-> <<TNode(0, <<"DirB">>), TNode(1, <<"DirA">>)>>,
   factories |-> [NoDeps EXCEPT !["DirA"] = <<Dep("DirB", {})>>],
   injector |-> NoInjector]

(* <div dirB><div dirA></div></div>, DirA(@Self() DirB).                    *)
App_Self ==
  [nodes |-> <<TNode(0, <<"DirB">>), TNode(1, <<"DirA">>)>>,
   factories |-> [NoDeps EXCEPT !["DirA"] = <<Dep("DirB", {"Self"})>>],
   injector |-> NoInjector]

(* <div dirB><div dirA dirC></div></div> with the ids of DirA and DirC set  *)
(* to 1 and 257; DirB keeps the id it was numbered with, here the one that   *)
(* takes the same bit.                                                      *)
App_SelfFalsePositive ==
  [nodes |-> <<TNode(0, <<"DirB">>), TNode(1, <<"DirA", "DirC">>)>>,
   factories |-> [NoDeps EXCEPT !["DirA"] = <<Dep("DirB", {"Self"})>>],
   injector |-> NoInjector,
   ids |-> [DirA |-> 1, DirC |-> 257, DirB |-> 1]]

(* Variant: the factory of DirA passes no flags.                            *)
App_SkipSelf_NoFlags ==
  [nodes |-> <<TNode(0, <<"Comp", "DirB">>), ViewTNode(1, 0, <<"DirA", "DirB">>)>>,
   views |-> <<ComponentLView(1)>>,
   factories |-> [NoDeps EXCEPT !["DirA"] = <<Dep("DirB", {})>>],
   injector |-> NoInjector]

(* <comp dirB="parent"></comp>, Comp is <div dirA dirB="self"></div>,       *)
(* DirA(@SkipSelf() DirB).                                                  *)
App_SkipSelf ==
  [nodes |-> <<TNode(0, <<"Comp", "DirB">>), ViewTNode(1, 0, <<"DirA", "DirB">>)>>,
   views |-> <<ComponentLView(1)>>,
   factories |-> [NoDeps EXCEPT !["DirA"] = <<Dep("DirB", {"SkipSelf"})>>],
   injector |-> NoInjector]

(* <comp></comp>, Comp is <div dirString></div> with viewProviders         *)
(* [{provide: String, useValue: 'Foo'}], DirString(@Host() String).         *)
App_HostViewProviders ==
  [nodes |-> <<HostTNode(0, <<"Comp">>, <<>>, <<Provider("String", None)>>),
               ViewTNode(1, 0, <<"DirString">>)>>,
   views |-> <<ComponentLView(1)>>,
   factories |-> [NoDeps EXCEPT !["DirString"] = <<Dep("String", {"Host"})>>],
   injector |-> NoInjector]

(* <comp></comp>, Comp is <div dirCmp></div>, DirComp(@Host() Comp).        *)
App_HostComponent ==
  [nodes |-> <<TNode(0, <<"Comp">>), ViewTNode(1, 0, <<"DirComp">>)>>,
   views |-> <<ComponentLView(1)>>,
   factories |-> [NoDeps EXCEPT !["DirComp"] = <<Dep("Comp", {"Host"})>>],
   injector |-> NoInjector]

(* Variant: the outer div carries no dirB.                                  *)
App_HostAcrossEmbedded_NoDirB ==
  [nodes |-> <<TNode(0, <<>>), TContainerNode(0, 1, <<"NgIf">>),
               ViewTNode(1, 0, <<"DirA">>)>>,
   views |-> <<EmbeddedLView(2, 2)>>,
   factories |-> [NoDeps EXCEPT !["DirA"] = <<Dep("DirB", {"Host"})>>],
   injector |-> NoInjector,
   updatePass |-> 3]

(* <div dirB><div *ngIf="showing" dirA></div></div>, DirA(@Host() DirB);    *)
(* the view of IfTemplate is created in fixture.update().  NgIf gets its    *)
(* ViewContainerRef and TemplateRef from their own factories.                *)
App_HostAcrossEmbedded ==
  [nodes |-> <<TNode(0, <<"DirB">>), TContainerNode(0, 1, <<"NgIf">>),
               ViewTNode(1, 0, <<"DirA">>)>>,
   views |-> <<EmbeddedLView(2, 2)>>,
   factories |-> [NoDeps EXCEPT !["DirA"] = <<Dep("DirB", {"Host"})>>],
   injector |-> NoInjector,
   updatePass |-> 3]

(* <div group><child></child></div>, ChildComponent is                      *)
(* <input controlName>; GroupDirective provides ControlContainer as itself,  *)
(* ChildComponent has the same as a viewProvider, and                       *)
(* ControlNameDirective(@Host() @SkipSelf() ControlContainer).              *)
App_HostViewProvidersRegression ==
  [nodes |-> <<HostTNode(0, <<"GroupDirective">>,
                         <<Provider("ControlContainer", "GroupDirective")>>, <<>>),
               HostTNode(1, <<"ChildComponent">>, <<>>,
                         <<Provider("ControlContainer", "GroupDirective")>>),
               ViewTNode(1, 0, <<"ControlNameDirective">>)>>,
   views |-> <<ComponentLView(2)>>,
   factories |-> [NoDeps EXCEPT !["ControlNameDirective"] =
                                   <<Dep("ControlContainer", {"Host", "SkipSelf"})>>],
   injector |-> NoInjector]

(* <comp></comp>, Comp is <div dirString></div> with providers              *)
(* [{provide: String, useValue: 'Foo'}], DirString(@Host() String).         *)
App_HostProviders ==
  [nodes |-> <<HostTNode(0, <<"Comp">>, <<Provider("String", None)>>, <<>>),
               ViewTNode(1, 0, <<"DirString">>)>>,
   views |-> <<ComponentLView(1)>>,
   factories |-> [NoDeps EXCEPT !["DirString"] = <<Dep("String", {"Host"})>>],
   injector |-> NoInjector]

(* Variant: the factory of DirA passes no flags.                            *)
App_HostOtherDirective_NoFlags ==
  [nodes |-> <<TNode(0, <<"Comp", "DirB">>), ViewTNode(1, 0, <<"DirA">>)>>,
   views |-> <<ComponentLView(1)>>,
   factories |-> [NoDeps EXCEPT !["DirA"] = <<Dep("DirB", {})>>],
   injector |-> NoInjector]

(* <comp dirB></comp>, Comp is <div dirA></div>, DirA(@Host() DirB).        *)
App_HostOtherDirective ==
  [nodes |-> <<TNode(0, <<"Comp", "DirB">>), ViewTNode(1, 0, <<"DirA">>)>>,
   views |-> <<ComponentLView(1)>>,
   factories |-> [NoDeps EXCEPT !["DirA"] = <<Dep("DirB", {"Host"})>>],
   injector |-> NoInjector]

(* <comp dirB></comp>, Comp is % if (showing) { <div dirA></div> % }; the   *)
(* inline view is created in fixture.update().                              *)
App_HostInlineView ==
  [nodes |-> <<TNode(0, <<"Comp", "DirB">>), TContainerNode(1, 0, <<>>),
               ViewTNode(2, 0, <<"DirA">>)>>,
   views |-> <<ComponentLView(1), EmbeddedLView(2, 2)>>,
   factories |-> [NoDeps EXCEPT !["DirA"] = <<Dep("DirB", {"Host"})>>],
   injector |-> NoInjector,
   updatePass |-> 3]

(* The host element of App, <comp></comp> in the view of App, and           *)
(* <div dirCmp></div> in the view of Comp; DirComp(@Host() App).            *)
App_HostAboveHost ==
  [nodes |-> <<TNode(0, <<"App">>), ViewTNode(1, 0, <<"Comp">>),
               ViewTNode(2, 0, <<"DirComp">>)>>,
   views |-> <<ComponentLView(1), ComponentLView(2)>>,
   factories |-> [NoDeps EXCEPT !["DirComp"] = <<Dep("App", {"Host"})>>],
   injector |-> NoInjector]

(* Variant: the div of DirA carries no dirB.                                *)
App_PeerDep_NoPeer ==
  [nodes |-> <<TNode(0, <<"Comp", "DirB">>), ViewTNode(1, 0, <<"DirA">>)>>,
   views |-> <<ComponentLView(1)>>,
   factories |-> [NoDeps EXCEPT !["DirA"] = <<Dep("DirB", {})>>],
   injector |-> NoInjector]

(* <parent dirB></parent>, Parent is <div dirA dirB></div>, DirA(DirB);     *)
(* Comp stands for Parent.                                                  *)
App_PeerDep ==
  [nodes |-> <<TNode(0, <<"Comp", "DirB">>), ViewTNode(1, 0, <<"DirA", "DirB">>)>>,
   views |-> <<ComponentLView(1)>>,
   factories |-> [NoDeps EXCEPT !["DirA"] = <<Dep("DirB", {})>>],
   injector |-> NoInjector]

(* <comp dirB></comp>, Comp is <div dirA #dir="dirA">, DirA(DirB,           *)
(* ViewContainerRef); the ViewContainerRef comes from its own factory.      *)
App_ComponentHosts ==
  [nodes |-> <<TNode(0, <<"Comp", "DirB">>), ViewTNode(1, 0, <<"DirA">>)>>,
   views |-> <<ComponentLView(1)>>,
   factories |-> [NoDeps EXCEPT !["DirA"] = <<Dep("DirB", {})>>],
   injector |-> NoInjector]

(* Variant: the ng-template is declared under the second div, where its    *)
(* view is inserted.                                                        *)
App_DeclarationTree_DeclaredAtInsertion ==
  [nodes |-> <<TNode(0, <<"DirB">>), TContainerNode(0, 3, <<>>), TNode(0, <<"DirB">>),
               TNode(3, <<"StructuralDir">>), ViewTNode(1, 0, <<"DirA">>)>>,
   views |-> <<EmbeddedLView(2, 4)>>,
   factories |-> [NoDeps EXCEPT !["DirA"] = <<Dep("DirB", {})>>],
   injector |-> NoInjector,
   updatePass |-> 5]

(* <div dirB value="declaration"><ng-template #foo><div dirA></div>         *)
(* </ng-template></div><div dirB value="insertion"><div structuralDir       *)
(* [tmp]="foo"></div></div>; structuralDir.create() inserts the view of     *)
(* FooTemplate at the ViewContainerRef of the div of StructuralDir.         *)
App_DeclarationTree ==
  [nodes |-> <<TNode(0, <<"DirB">>), TContainerNode(0, 1, <<>>), TNode(0, <<"DirB">>),
               TNode(3, <<"StructuralDir">>), ViewTNode(1, 0, <<"DirA">>)>>,
   views |-> <<EmbeddedLView(2, 4)>>,
   factories |-> [NoDeps EXCEPT !["DirA"] = <<Dep("DirB", {})>>],
   injector |-> NoInjector,
   updatePass |-> 5]

AppNames ==
  {"IntraView", "DependencyOrder", "ModuleFallback", "ForLoop", "OutOfOrder", "Complex",
   "NotFound", "NotFoundInAncestors", "InjectEachOther", "InjectItself",
   "OptionalLimpMode", "OptionalModuleInjector", "OptionalSelf",
   "OptionalDefinedElsewhere", "Self", "SelfFalsePositive", "SkipSelf",
   "HostViewProviders", "HostComponent", "HostAcrossEmbedded",
   "HostViewProvidersRegression", "HostProviders", "HostOtherDirective",
   "HostInlineView", "HostAboveHost", "PeerDep", "ComponentHosts", "DeclarationTree"}

App(name) ==
  CASE name = "IntraView" -> App_IntraView
    [] name = "DependencyOrder" -> App_DependencyOrder
    [] name = "ModuleFallback" -> App_ModuleFallback
    [] name = "ForLoop" -> App_ForLoop
    [] name = "OutOfOrder" -> App_OutOfOrder
    [] name = "Complex" -> App_Complex
    [] name = "NotFound" -> App_NotFound
    [] name = "NotFoundInAncestors" -> App_NotFoundInAncestors
    [] name = "InjectEachOther" -> App_InjectEachOther
    [] name = "InjectItself" -> App_InjectItself
    [] name = "OptionalLimpMode" -> App_OptionalLimpMode
    [] name = "OptionalModuleInjector" -> App_OptionalModuleInjector
    [] name = "OptionalSelf" -> App_OptionalSelf
    [] name = "OptionalDefinedElsewhere" -> App_OptionalDefinedElsewhere
    [] name = "Self" -> App_Self
    [] name = "SelfFalsePositive" -> App_SelfFalsePositive
    [] name = "SkipSelf" -> App_SkipSelf
    [] name = "HostViewProviders" -> App_HostViewProviders
    [] name = "HostComponent" -> App_HostComponent
    [] name = "HostAcrossEmbedded" -> App_HostAcrossEmbedded
    [] name = "HostViewProvidersRegression" -> App_HostViewProvidersRegression
    [] name = "HostProviders" -> App_HostProviders
    [] name = "HostOtherDirective" -> App_HostOtherDirective
    [] name = "HostInlineView" -> App_HostInlineView
    [] name = "HostAboveHost" -> App_HostAboveHost
    [] name = "PeerDep" -> App_PeerDep
    [] name = "ComponentHosts" -> App_ComponentHosts
    [] OTHER -> App_DeclarationTree

(* The node injector (render3/di.ts).                                       *)

(* The Bloom filter of one injector: eight words of 32 bits, kept as the    *)
(* signed 32-bit integers that the bitwise operators of the code produce.   *)
BLOOM_SIZE == 256

WordBits == 32

EmptyBloom == <<0, 0, 0, 0, 0, 0, 0, 0>>

(* 1 << bit: the shift count is taken modulo 32 and bit 31 is the sign.      *)
shiftLeft(bit) ==
  LET b == bit % WordBits
  IN IF b = WordBits - 1 THEN (0 - 2 ^ (WordBits - 2)) - 2 ^ (WordBits - 2) ELSE 2 ^ b

(* !!(word & (1 << bit))                                                    *)
testBit(word, bit) ==
  LET b == bit % WordBits
      low == IF word < 0 THEN (word + 2 ^ (WordBits - 2)) + 2 ^ (WordBits - 2) ELSE word
  IN IF b = WordBits - 1 THEN word < 0 ELSE (low \div (2 ^ b)) % 2 = 1

(* word | (1 << bit)                                                        *)
orBit(word, bit) == IF testBit(word, bit) THEN word ELSE word + shiftLeft(bit)

(* The bit a token takes in the filter: its id masked to 0..255.            *)
bloomHash(id) == id % BLOOM_SIZE

(* The word of the filter that holds a bit, from the bits b7 b6 b5.         *)
bloomWord(bloomBit) == (bloomBit \div WordBits) + 1

(* bloomAdd(injectorIndex, tView, type) on the eight words at injectorIndex. *)
bloomAdd(tData, id) ==
  LET bloomBit == bloomHash(id)
  IN [tData EXCEPT ![bloomWord(bloomBit)] = orBit(@, bloomBit)]

(* bloomHasToken(bloomHash, injectorIndex, injectorView)                    *)
bloomHasToken(bloomBit, tData) == testBit(tData[bloomWord(bloomBit)], bloomBit)

(* Position of a token among the directives of an element, 0 when absent.   *)
indexOf(dirs, token) ==
  LET S == {i \in 1..Len(dirs) : dirs[i] = token}
  IN IF S = {} THEN 0 ELSE CHOOSE i \in S : \A j \in S : i <= j

(* The id a token carries in __NG_ELEMENT_ID__: the one the App sets, else  *)
(* the one handed out when the token was first registered.                  *)
NG_ELEMENT_ID(a, token) ==
  IF "ids" \in DOMAIN a /\ token \in DOMAIN a.ids THEN a.ids[token]
  ELSE indexOf(TokenOrder, token)

(* The view a node is declared in; 0 is the view of the App itself.         *)
viewOf(a, n) == IF "view" \in DOMAIN a.nodes[n] THEN a.nodes[n].view ELSE 0

(* view[HOST_NODE]: the host element of a component view, the container of *)
(* an embedded view; the view of the App has none.                          *)
hostNodeOf(a, v) == IF v = 0 THEN 0 ELSE a.views[v].hostNode

(* findComponentView: out of embedded views through their declaration view. *)
RECURSIVE findComponentView(_, _)
findComponentView(a, v) ==
  IF v = 0 THEN 0
  ELSE IF a.views[v].type = "embedded" THEN findComponentView(a, viewOf(a, a.views[v].hostNode))
  ELSE v

isComponent(a, n) ==
  "views" \in DOMAIN a /\ \E v \in 1..Len(a.views) :
                            a.views[v].type = "component" /\ a.views[v].hostNode = n

nodeType(a, n) == IF "type" \in DOMAIN a.nodes[n] THEN a.nodes[n].type ELSE "Element"

providersOf(a, n) == IF "providers" \in DOMAIN a.nodes[n] THEN a.nodes[n].providers ELSE <<>>

viewProvidersOf(a, n) ==
  IF "viewProviders" \in DOMAIN a.nodes[n] THEN a.nodes[n].viewProviders ELSE <<>>

(* Position of the provider of a token in a list of providers, 0 when none. *)
providerIndex(providers, token) ==
  LET S == {i \in 1..Len(providers) : providers[i].provide = token}
  IN IF S = {} THEN 0 ELSE CHOOSE i \in S : \A j \in S : i <= j

(* A node has an injector when a directive or a provider is on it.          *)
hasInjector(a, n) ==
  a.nodes[n].dirs # <<>> \/ providersOf(a, n) # <<>> \/ viewProvidersOf(a, n) # <<>>

(* getParentInjectorLocation: the parent node in the view, and from the top *)
(* of a view the host node of that view.                                    *)
getParentInjectorLocation(a, n) ==
  IF a.nodes[n].parent # 0 THEN a.nodes[n].parent ELSE hostNodeOf(a, viewOf(a, n))

(* tView.data at the injector of a node: bloomAdd of every token that       *)
(* diPublicInInjector registers on the node.                                *)
RECURSIVE bloomAddAll(_, _, _)
bloomAddAll(tData, a, tokens) ==
  IF tokens = <<>> THEN tData
  ELSE bloomAddAll(bloomAdd(tData, NG_ELEMENT_ID(a, Head(tokens))), a, Tail(tokens))

injectorTokens(a, n) ==
  [i \in 1..Len(viewProvidersOf(a, n)) |-> viewProvidersOf(a, n)[i].provide]
    \o [i \in 1..Len(providersOf(a, n)) |-> providersOf(a, n)[i].provide]
    \o a.nodes[n].dirs

tData(a, n) == bloomAddAll(EmptyBloom, a, injectorTokens(a, n))

(* The copy of the filter in the LView: the node's own bits and those of    *)
(* every injector above it.                                                 *)
RECURSIVE cumulativeBloom(_, _)
cumulativeBloom(a, n) ==
  IF n = 0 THEN EmptyBloom
  ELSE bloomAddAll(cumulativeBloom(a, getParentInjectorLocation(a, n)), a, injectorTokens(a, n))

shouldSearchParent(flags, isFirstHostTNode) ==
  "Self" \notin flags /\ ~("Host" \in flags /\ isFirstHostTNode)

NOT_FOUND == [kind |-> "NOT_FOUND", node |-> 0, index |-> 0]

(* locateDirectiveOrProvider: view providers (when they can be seen), then  *)
(* providers, then directives; on the host element of an @Host lookup only  *)
(* the view providers and the component itself.                             *)
locateDirectiveOrProvider(a, n, token, canAccessViewProviders, isHostSpecialCase) ==
  LET vp == providerIndex(viewProvidersOf(a, n), token)
      pr == providerIndex(providersOf(a, n), token)
      di == indexOf(a.nodes[n].dirs, token)
  IN IF canAccessViewProviders /\ vp # 0 THEN [kind |-> "viewProvider", node |-> n, index |-> vp]
     ELSE IF isHostSpecialCase
       THEN IF isComponent(a, n) /\ di = 1 THEN [kind |-> "directive", node |-> n, index |-> 1]
            ELSE NOT_FOUND
     ELSE IF pr # 0 THEN [kind |-> "provider", node |-> n, index |-> pr]
     ELSE IF di # 0 THEN [kind |-> "directive", node |-> n, index |-> di]
     ELSE NOT_FOUND

(* searchTokensOnInjector: previousView is -1 on the node the lookup starts *)
(* at, else the view of the injector visited before.                        *)
searchTokensOnInjector(a, n, token, previousView, flags, hostTElementNode, includeViewProviders) ==
  LET canAccessViewProviders ==
        IF previousView = -1 THEN isComponent(a, n) /\ includeViewProviders
        ELSE previousView # viewOf(a, n) /\ nodeType(a, n) = "Element"
      isHostSpecialCase == "Host" \in flags /\ hostTElementNode = n
  IN locateDirectiveOrProvider(a, n, token, canAccessViewProviders, isHostSpecialCase)

(* The loop of getOrCreateInjectable over the node injectors from node n    *)
(* upwards: where the token is, or NOT_FOUND.                               *)
RECURSIVE searchNodeInjectors(_, _, _, _, _, _, _)
searchNodeInjectors(a, n, token, previousView, flags, hostTElementNode, includeViewProviders) ==
  IF n = 0 THEN NOT_FOUND
  ELSE IF ~hasInjector(a, n)
    THEN searchNodeInjectors(a, getParentInjectorLocation(a, n), token, previousView, flags,
                             hostTElementNode, includeViewProviders)
  ELSE LET hash == bloomHash(NG_ELEMENT_ID(a, token))
           at == IF bloomHasToken(hash, tData(a, n))
                   THEN searchTokensOnInjector(a, n, token, previousView, flags,
                                               hostTElementNode, includeViewProviders)
                   ELSE NOT_FOUND
       IN IF at # NOT_FOUND THEN at
          ELSE IF shouldSearchParent(flags, n = hostTElementNode)
                  /\ bloomHasToken(hash, cumulativeBloom(a, n))
            THEN searchNodeInjectors(a, getParentInjectorLocation(a, n), token, viewOf(a, n),
                                     flags, hostTElementNode, includeViewProviders)
          ELSE NOT_FOUND

Found(kind, node, index, token, flags) ==
  [kind |-> kind, node |-> node, index |-> index, token |-> token, flags |-> flags]

(* A token found nowhere: null under @Optional, else NOT_FOUND [token].     *)
notFoundValue(token, flags) ==
  IF "Optional" \in flags THEN Found("null", 0, 0, token, flags)
  ELSE Found("NOT_FOUND", 0, 0, token, flags)

(* getOrCreateInjectable: node injectors first, then the module injector    *)
(* unless @Self or @Host forbids it.  A useExisting provider is resolved    *)
(* from the node that holds it.                                             *)
RECURSIVE getOrCreateInjectable(_, _, _, _, _)
getOrCreateInjectable(a, n, token, flags, includeViewProviders) ==
  LET skip == ~hasInjector(a, n) \/ "SkipSelf" \in flags
      start == IF ~skip THEN n
               ELSE IF shouldSearchParent(flags, FALSE) THEN getParentInjectorLocation(a, n)
               ELSE 0
      previousView == IF skip THEN viewOf(a, n) ELSE -1
      hostTElementNode ==
        IF "Host" \in flags THEN hostNodeOf(a, findComponentView(a, viewOf(a, n))) ELSE 0
      at == searchNodeInjectors(a, start, token, previousView, flags, hostTElementNode,
                                includeViewProviders)
      provider == IF at.kind = "viewProvider" THEN viewProvidersOf(a, at.node)[at.index]
                  ELSE providersOf(a, at.node)[at.index]
  IN IF at.kind = "directive" THEN Found("node", at.node, at.index, token, flags)
     ELSE IF at.kind \in {"provider", "viewProvider"}
       THEN IF provider.useExisting = None THEN Found("value", at.node, at.index, token, flags)
            ELSE LET r == getOrCreateInjectable(a, at.node, provider.useExisting, {},
                                                at.kind = "viewProvider")
                 IN IF r.kind = "NOT_FOUND" THEN notFoundValue(token, flags) ELSE r
     ELSE IF flags \cap {"Self", "Host"} = {} /\ a.injector.present
             /\ token \in a.injector.provides
       THEN Found("module", 0, 0, token, flags)
     ELSE notFoundValue(token, flags)

(* getNodeInjectable: an instance is returned as it is; a factory is run    *)
(* once, and one that is already resolving is a circular dependency.        *)
getNodeInjectable(slot) ==
  IF slot = "instance" THEN "reuse"
  ELSE IF slot = "resolving" THEN "circular"
  ELSE "create"

NoError == [kind |-> None, token |-> None, flags |-> {}]

Instance(node, type) == [kind |-> "instance", node |-> node, type |-> type]

Frame(node, index) == [node |-> node, index |-> index, next |-> 1, args |-> <<>>]

Top == stack[Len(stack)]

TypeOf(frame) == App(app).nodes[frame.node].dirs[frame.index]

(* The argument is handed to the innermost factory.                         *)
pushArg(stk, arg) ==
  [stk EXCEPT ![Len(stk)] = [@ EXCEPT !.args = Append(@, arg), !.next = @ + 1]]

(* An error leaves the creation of the view: the factories in progress are  *)
(* abandoned and their slots hold the factory again.                        *)
throwError(kind, token, flags) ==
  /\ diStep' = "error"
  /\ diError' = [kind |-> kind, token |-> token, flags |-> flags]
  /\ stack' = <<>>
  /\ nodeInjector' = [n \in 1..Len(nodeInjector) |->
                        [i \in 1..Len(nodeInjector[n]) |->
                           IF nodeInjector[n][i] = "resolving" THEN "factory"
                           ELSE nodeInjector[n][i]]]
  /\ UNCHANGED <<app, nodeCursor, dirCursor, log>>

(* new ComponentFixture(App): the creation block of App starts.             *)
NewComponentFixture ==
  /\ diStep \in {"idle", "done", "error"}
  /\ \E a \in AppNames : app' = a
  /\ diStep' = "create"
  /\ nodeCursor' = 1
  /\ dirCursor' = 1
  /\ nodeInjector' = <<>>
  /\ stack' = <<>>
  /\ log' = <<>>
  /\ diError' = NoError
  /\ UNCHANGED outsideDI

(* element(index, name, attrs): the factories of the matching directives    *)
(* are stored in the element's node injector.                               *)
element ==
  /\ diStep = "create"
  /\ nodeInjector' = Append(nodeInjector,
                            [i \in 1..Len(App(app).nodes[nodeCursor].dirs) |-> "factory"])
  /\ dirCursor' = 1
  /\ diStep' = "instantiate"
  /\ UNCHANGED <<app, nodeCursor, stack, log, diError>>
  /\ UNCHANGED outsideDI

(* instantiateAllDirectives: the directives of the element in order; one    *)
(* that a dependent already created is skipped.                             *)
instantiateAllDirectives ==
  /\ diStep = "instantiate"
  /\ stack = <<>>
  /\ IF dirCursor > Len(App(app).nodes[nodeCursor].dirs)
       THEN /\ nodeCursor' = nodeCursor + 1
            /\ diStep' = IF nodeCursor = Len(App(app).nodes) THEN "done" ELSE "create"
            /\ UNCHANGED <<dirCursor, nodeInjector, stack>>
       ELSE IF getNodeInjectable(nodeInjector[nodeCursor][dirCursor]) = "reuse"
         THEN /\ dirCursor' = dirCursor + 1
              /\ UNCHANGED <<nodeCursor, diStep, nodeInjector, stack>>
         ELSE /\ stack' = <<Frame(nodeCursor, dirCursor)>>
              /\ nodeInjector' = [nodeInjector EXCEPT ![nodeCursor][dirCursor] = "resolving"]
              /\ UNCHANGED <<nodeCursor, dirCursor, diStep>>
  /\ UNCHANGED <<app, log, diError>>
  /\ UNCHANGED outsideDI

(* directiveInject(token, flags), called by the innermost factory for its   *)
(* next constructor argument.                                               *)
directiveInject ==
  /\ diStep = "instantiate"
  /\ stack # <<>>
  /\ Top.next <= Len(App(app).factories[TypeOf(Top)])
  /\ \E a \in {App(app)} :
     \E dep \in {a.factories[TypeOf(Top)][Top.next]} :
     \E r \in {getOrCreateInjectable(a, Top.node, dep.token, dep.flags,
                                     isComponent(a, Top.node) /\ Top.index = 1)} :
     \E how \in {IF r.kind = "node" THEN getNodeInjectable(nodeInjector[r.node][r.index])
                 ELSE r.kind} :
        CASE how = "reuse" ->
               /\ stack' = pushArg(stack, Instance(r.node, r.token))
               /\ UNCHANGED <<app, diStep, nodeCursor, dirCursor, nodeInjector, log, diError>>
          [] how = "create" ->
               /\ stack' = Append(stack, Frame(r.node, r.index))
               /\ nodeInjector' = [nodeInjector EXCEPT ![r.node][r.index] = "resolving"]
               /\ UNCHANGED <<app, diStep, nodeCursor, dirCursor, log, diError>>
          [] how = "circular" -> throwError("Circular dep for", r.token, r.flags)
          [] how = "module" ->
               /\ stack' = pushArg(stack, [kind |-> "module", node |-> 0, type |-> r.token])
               /\ UNCHANGED <<app, diStep, nodeCursor, dirCursor, nodeInjector, log, diError>>
          [] how = "value" ->
               /\ stack' = pushArg(stack, [kind |-> "value", node |-> r.node, type |-> r.token])
               /\ UNCHANGED <<app, diStep, nodeCursor, dirCursor, nodeInjector, log, diError>>
          [] how = "null" ->
               /\ stack' = pushArg(stack, [kind |-> "null", node |-> 0, type |-> r.token])
               /\ UNCHANGED <<app, diStep, nodeCursor, dirCursor, nodeInjector, log, diError>>
          [] OTHER -> throwError("NOT_FOUND", r.token, r.flags)
  /\ UNCHANGED outsideDI

(* The innermost factory has its arguments: the constructor runs, the       *)
(* instance replaces the factory in its slot and goes to the requester.     *)
factoryReturn ==
  /\ diStep = "instantiate"
  /\ stack # <<>>
  /\ Top.next > Len(App(app).factories[TypeOf(Top)])
  /\ nodeInjector' = [nodeInjector EXCEPT ![Top.node][Top.index] = "instance"]
  /\ log' = Append(log, [node |-> Top.node, type |-> TypeOf(Top), args |-> Top.args])
  /\ IF Len(stack) = 1
       THEN stack' = <<>> /\ dirCursor' = dirCursor + 1
       ELSE /\ stack' = pushArg(SubSeq(stack, 1, Len(stack) - 1),
                                Instance(Top.node, TypeOf(Top)))
            /\ UNCHANGED dirCursor
  /\ UNCHANGED <<app, diStep, nodeCursor, diError>>
  /\ UNCHANGED outsideDI

DINext ==
  \/ NewComponentFixture
  \/ element
  \/ instantiateAllDirectives
  \/ directiveInject
  \/ factoryReturn

----------------------------------------------------------------------------
(* The Bloom filter tests of the inject suite.                              *)

(* The ids of Dir0 .. Dir231, of Dir1 which is never added, the 257 of the  *)
(* false positive test, and 31 and 255 which take the sign bit of a word.   *)
BloomIds == {0, 1, 31, 33, 66, 99, 132, 165, 198, 231, 255, 257}

(* Variant: a filter that starts with bit 0 of its first word set.          *)
mockTViewData_Dirty == <<1, 0, 0, 0, 0, 0, 0, 0>>

(* mockTView = {data: [0, 0, 0, 0, 0, 0, 0, 0, null], ...}                  *)
mockTViewData == <<0, 0, 0, 0, 0, 0, 0, 0>>

(* bloomState(): the filter words from the last to the first.               *)
bloomState == [i \in 1..8 |-> mockTView[9 - i]]

beforeEach ==
  /\ mockTView' = mockTViewData
  /\ bloomAdded' = {}
  /\ UNCHANGED outsideBloom

(* bloomAdd(0, mockTView, Dir) for one of the directive classes.            *)
bloomAdd_mockTView ==
  /\ \E id \in BloomIds :
       /\ mockTView' = bloomAdd(mockTView, id)
       /\ bloomAdded' = bloomAdded \cup {id}
  /\ UNCHANGED outsideBloom

BloomNext ==
  \/ beforeEach
  \/ bloomAdd_mockTView

----------------------------------------------------------------------------
(* The template tests of the integration suite: 'should re-use template    *)
(* data and node data' (part_000 2179-2223), 'should support creation-time  *)
(* values in text nodes' (part_000 157-172) and the StructuredComp of       *)
(* 'should return a context object from a given dom node' (part_000         *)
(* 2541-2577).  A test renders its template function several times; the     *)
(* statements of the function run one at a time.                            *)

(* The reserved slots at the start of an LView: flags, parent view,         *)
(* context, renderer and binding cursor.                                    *)
HEADER_OFFSET == 5

(* undefined, where an object reference is expected.                        *)
NoObject == 0

(* The ngDevMode counters stop counting here.                               *)
MaxCount == 4

(* Variant: a node index is used as a slot index as it is.                  *)
slotIndex_NoOffset(index) == index

(* index + HEADER_OFFSET                                                    *)
slotIndex(index) == index + HEADER_OFFSET

(* One statement of a template function: the instruction, its index         *)
(* argument, the block it stands in (rf & RenderFlags.Create or Update),    *)
(* 0 for the template itself and 1 for its embeddedViewStart block.         *)
Instr(op, index, block, level, arg) ==
  [op |-> op, index |-> index, block |-> block, level |-> level, arg |-> arg]

(* function templateFn(rf, ctx) of 'should re-use template data and node      *)
(* data'.                                                                   *)
Template_TemplateData ==
  << Instr("container", 0, "Create", 0, None),
     Instr("containerRefreshStart", 0, "Update", 0, None),
     Instr("embeddedViewStart", 0, "Update", 0, None),
     Instr("element", 0, "Create", 1, "div"),
     Instr("embeddedViewEnd", 0, "Update", 1, None),
     Instr("containerRefreshEnd", 0, "Update", 0, None) >>

(* function templateFn(rf, value) of 'should support creation-time values in  *)
(* text nodes'.                                                             *)
Template_CreationText ==
  << Instr("text", 0, "Create", 0, None),
     Instr("textBinding", 0, "Create", 0, "value") >>

(* The template of StructuredComp.                                          *)
Template_StructuredComp ==
  << Instr("element", 0, "Create", 0, "section"),
     Instr("element", 1, "Create", 0, "div") >>

TemplateTests == {"TemplateData", "CreationText", "StructuredComp"}

(* The host view of a test carries the name of the test; the embedded view  *)
(* of the template data test is block 0 of its container.                   *)
EmbeddedBlock == "TemplateData.0"

TemplateViewIds == TemplateTests \cup {EmbeddedBlock}

NativeNames == {"section", "div", "#text"}

templateFn(t) ==
  CASE t = "TemplateData" -> Template_TemplateData
    [] t = "CreationText" -> Template_CreationText
    [] t = "StructuredComp" -> Template_StructuredComp
    [] OTHER -> <<>>

(* The contexts a test renders its template with.                           *)
Contexts(t) ==
  CASE t = "TemplateData" -> {"true", "false"}
    [] t = "CreationText" -> {"once", "twice"}
    [] OTHER -> {None}

noLView == [created |-> FALSE]

noGlobals ==
  [lView |-> Null, contextLView |-> Null, previousOrParentTNode |-> Null,
   isParent |-> FALSE, bindingRootIndex |-> -1]

ngDevModeResetPerfCounters == [tView |-> 0, tNode |-> 0, rendererSetText |-> 0]

noOldData == [template |-> NoObject, container |-> NoObject, element |-> NoObject]

headerSlot == [name |-> "header"]

emptySlot == [name |-> Null]

(* createTView: the static data of a template, one entry per slot of its    *)
(* views; firstTemplatePass until the template has run once.                *)
createTView(consts) ==
  [kind |-> "TView", firstTemplatePass |-> TRUE,
   data |-> [k \in 0..(HEADER_OFFSET + consts - 1) |-> NoObject]]

(* createTNode: the static data of a node.                                  *)
createTNode(type, index) ==
  [kind |-> "TNode", type |-> type, index |-> index, tViews |-> <<>>]

(* createLView for a view of a template: the header and one slot per node.  *)
createTemplateLView(view, tViewId) ==
  LET c == createLView(view)
  IN [flags |-> c.flags, bindingIndex |-> c.bindingIndex, bindings |-> c.bindings,
      created |-> TRUE, tView |-> tViewId,
      slots |-> [k \in 0..(HEADER_OFFSET + tView(view).bindingStartIndex - 1) |->
                  IF k < HEADER_OFFSET THEN headerSlot ELSE emptySlot]]

(* getOrCreateTView(templateFn, consts, vars, ...): the TView cached in     *)
(* templateFn.ngPrivateData, created when there is none.                    *)
getOrCreateTView(heap, cached, consts) ==
  IF cached # NoObject THEN [heap |-> heap, id |-> cached, created |-> FALSE]
  ELSE [heap |-> Append(heap, createTView(consts)), id |-> Len(heap) + 1,
        created |-> TRUE]

(* createNodeAtIndex: the TNode stored in tView.data at the slot of the     *)
(* node, created when there is none.                                        *)
getOrCreateTNode(heap, tv, index, type) ==
  LET slot == slotIndex(index)
      cached == heap[tv].data[slot]
  IN IF cached # NoObject THEN [heap |-> heap, id |-> cached, created |-> FALSE]
     ELSE [heap |-> Append([heap EXCEPT ![tv].data[slot] = Len(heap) + 1],
                           createTNode(type, slot)),
           id |-> Len(heap) + 1, created |-> TRUE]

(* Variant: every instantiation of the block computes its TView anew.       *)
getOrCreateEmbeddedTView_Fresh(heap, containerTNode, viewIndex, consts) ==
  [heap |-> Append([heap EXCEPT ![containerTNode].tViews = <<Len(heap) + 1>>],
                   createTView(consts)),
   id |-> Len(heap) + 1, created |-> TRUE]

(* getOrCreateEmbeddedTView(viewIndex, consts, vars, parent): the TView     *)
(* stored in the tViews of the container's TNode.                           *)
getOrCreateEmbeddedTView(heap, containerTNode, viewIndex, consts) ==
  LET tViews == heap[containerTNode].tViews
  IN IF viewIndex < Len(tViews)
       THEN [heap |-> heap, id |-> tViews[viewIndex + 1], created |-> FALSE]
       ELSE [heap |-> Append([heap EXCEPT ![containerTNode].tViews =
                                             Append(@, Len(heap) + 1)],
                             createTView(consts)),
             id |-> Len(heap) + 1, created |-> TRUE]

(* ngDevMode.counter++ when something was created.                          *)
count(counters, counter, created) ==
  IF created /\ counters[counter] < MaxCount
    THEN [counters EXCEPT ![counter] = @ + 1]
    ELSE counters

TemplateState ==
  [lView |-> globals.lView, contextLView |-> globals.contextLView,
   previousOrParentTNode |-> globals.previousOrParentTNode,
   isParent |-> globals.isParent, bindingRootIndex |-> globals.bindingRootIndex,
   views |-> lViews]

CommitTemplate(s) ==
  /\ globals' = [lView |-> s.lView, contextLView |-> s.contextLView,
                 previousOrParentTNode |-> s.previousOrParentTNode,
                 isParent |-> s.isParent, bindingRootIndex |-> s.bindingRootIndex]
  /\ lViews' = s.views

CurrentInstr == templateFn(running)[templateStep]

AtInstr(op) ==
  /\ templateStep \in 1..Len(templateFn(running))
  /\ CurrentInstr.op = op

(* Whether a statement runs: its block must be the block of the view that   *)
(* is being processed, a Create statement needs the creation mode (rf is    *)
(* Create | Update in creation mode and Update otherwise), and the          *)
(* embedded view block is guarded by if (ctx.condition).                    *)
executes(s, c, i) ==
  /\ (i.level = 0) = (s.lView = running)
  /\ i.block = "Create" => isCreationMode(s, s.lView)
  /\ i.op = "embeddedViewStart" => c = "true"

(* The statement that runs after statement k, or the end of the function.   *)
RECURSIVE nextStep(_, _, _)
nextStep(s, c, k) ==
  IF k >= Len(templateFn(running)) THEN Len(templateFn(running)) + 1
  ELSE IF executes(s, c, templateFn(running)[k + 1]) THEN k + 1
  ELSE nextStep(s, c, k + 1)

(* it(...): a test starts; beforeEach resets the counters, the template     *)
(* function of the test has no ngPrivateData yet.                           *)
it ==
  /\ templateStep = 0
  /\ \E t \in TemplateTests : running' = t
  /\ ctxValue' = None
  /\ templateStep' = 0
  /\ ngPrivateData' = NoObject
  /\ tObjects' = <<>>
  /\ hostView' = Null
  /\ lViews' = [v \in TemplateViewIds |-> noLView]
  /\ globals' = noGlobals
  /\ patchData' = [el \in NativeNames |-> Null]
  /\ ngDevMode' = ngDevModeResetPerfCounters
  /\ oldData' = noOldData
  /\ firstValue' = None
  /\ viewsLeft' = {}
  /\ UNCHANGED outsideTemplates

(* renderToHtml(Template, ctx, consts, vars), fixture.update(): the host    *)
(* view is created by the first call and kept; the view is entered and the  *)
(* template function is called with the flags of the view.                  *)
renderToHtml ==
  /\ running # None
  /\ templateStep = 0
  /\ \E c \in Contexts(running) :
       LET fresh == hostView = Null
           tv == getOrCreateTView(tObjects, ngPrivateData,
                                  tView(running).bindingStartIndex)
           s0 == IF fresh
                   THEN [TemplateState EXCEPT
                           !.views[running] = createTemplateLView(running, tv.id)]
                   ELSE TemplateState
           s1 == enterView(s0, running, Null)
       IN /\ ctxValue' = c
          /\ hostView' = running
          /\ ngPrivateData' = IF fresh THEN tv.id ELSE ngPrivateData
          /\ tObjects' = IF fresh THEN tv.heap ELSE tObjects
          /\ ngDevMode' = IF fresh
                            THEN count(count(count(ngDevMode, "tView", TRUE),
                                             "tView", tv.created), "tNode", TRUE)
                            ELSE ngDevMode
          /\ firstValue' = IF fresh THEN c ELSE firstValue
          /\ viewsLeft' = IF fresh THEN viewsLeft \ {running} ELSE viewsLeft
          /\ CommitTemplate(s1)
          /\ templateStep' = nextStep(s1, c, 0)
  /\ UNCHANGED <<running, patchData, oldData>>
  /\ UNCHANGED outsideTemplates

(* container(index): the LContainer is stored in the slot of the node.      *)
Template_container ==
  /\ AtInstr("container")
  /\ LET v == globals.lView
         n == getOrCreateTNode(tObjects, lViews[v].tView, CurrentInstr.index,
                               "Container")
         s == [TemplateState EXCEPT
                 !.views[v].slots[slotIndex(CurrentInstr.index)] =
                     [name |-> "container", activeIndex |-> 0, views |-> <<>>],
                 !.previousOrParentTNode = n.id,
                 !.isParent = FALSE]
     IN /\ tObjects' = n.heap
        /\ ngDevMode' = count(ngDevMode, "tNode", n.created)
        /\ CommitTemplate(s)
        /\ templateStep' = nextStep(s, ctxValue, templateStep)
  /\ UNCHANGED <<running, ctxValue, ngPrivateData, hostView, patchData, oldData,
                 firstValue, viewsLeft>>
  /\ UNCHANGED outsideTemplates

(* element(index, name): the native element is created, stored in the slot  *)
(* of the node and patched with the LView.                                  *)
Template_element ==
  /\ AtInstr("element")
  /\ LET v == globals.lView
         n == getOrCreateTNode(tObjects, lViews[v].tView, CurrentInstr.index,
                               "Element")
         s == [TemplateState EXCEPT
                 !.views[v].slots[slotIndex(CurrentInstr.index)] =
                     [name |-> CurrentInstr.arg, text |-> Null],
                 !.previousOrParentTNode = n.id,
                 !.isParent = FALSE]
     IN /\ tObjects' = n.heap
        /\ ngDevMode' = count(ngDevMode, "tNode", n.created)
        /\ patchData' = [patchData EXCEPT ![CurrentInstr.arg] = v]
        /\ CommitTemplate(s)
        /\ templateStep' = nextStep(s, ctxValue, templateStep)
  /\ UNCHANGED <<running, ctxValue, ngPrivateData, hostView, oldData, firstValue,
                 viewsLeft>>
  /\ UNCHANGED outsideTemplates

(* text(index): an empty text node is created and stored in its slot.       *)
Template_text ==
  /\ AtInstr("text")
  /\ LET v == globals.lView
         n == getOrCreateTNode(tObjects, lViews[v].tView, CurrentInstr.index,
                               "Element")
         s == [TemplateState EXCEPT
                 !.views[v].slots[slotIndex(CurrentInstr.index)] =
                     [name |-> "#text", text |-> ""],
                 !.previousOrParentTNode = n.id,
                 !.isParent = FALSE]
     IN /\ tObjects' = n.heap
        /\ ngDevMode' = count(ngDevMode, "tNode", n.created)
        /\ patchData' = [patchData EXCEPT !["#text"] = v]
        /\ CommitTemplate(s)
        /\ templateStep' = nextStep(s, ctxValue, templateStep)
  /\ UNCHANGED <<running, ctxValue, ngPrivateData, hostView, oldData, firstValue,
                 viewsLeft>>
  /\ UNCHANGED outsideTemplates

(* textBinding(index, value): the value is written to the text node unless  *)
(* it is NO_CHANGE.                                                         *)
Template_textBinding ==
  /\ AtInstr("textBinding")
  /\ LET v == globals.lView
         s == IF ctxValue = "NO_CHANGE" THEN TemplateState
              ELSE [TemplateState EXCEPT
                      !.views[v].slots[slotIndex(CurrentInstr.index)].text = ctxValue]
     IN /\ ngDevMode' = count(ngDevMode, "rendererSetText", ctxValue # "NO_CHANGE")
        /\ CommitTemplate(s)
        /\ templateStep' = nextStep(s, ctxValue, templateStep)
  /\ UNCHANGED <<running, ctxValue, ngPrivateData, tObjects, hostView, patchData,
                 oldData, firstValue, viewsLeft>>
  /\ UNCHANGED outsideTemplates

(* containerRefreshStart(index): the container becomes the cursor and none  *)
(* of its views has been visited.                                           *)
Template_containerRefreshStart ==
  /\ AtInstr("containerRefreshStart")
  /\ LET v == globals.lView
         slot == slotIndex(CurrentInstr.index)
         s == [TemplateState EXCEPT
                 !.views[v].slots[slot].activeIndex = 0,
                 !.previousOrParentTNode = tObjects[lViews[v].tView].data[slot],
                 !.isParent = TRUE]
     IN /\ CommitTemplate(s)
        /\ templateStep' = nextStep(s, ctxValue, templateStep)
  /\ UNCHANGED <<running, ctxValue, ngPrivateData, tObjects, hostView, patchData,
                 ngDevMode, oldData, firstValue, viewsLeft>>
  /\ UNCHANGED outsideTemplates

(* embeddedViewStart(viewBlockId, consts, vars): the view of the block is   *)
(* taken from the container, or created with the TView of the block, and    *)
(* entered.                                                                 *)
Template_embeddedViewStart ==
  /\ AtInstr("embeddedViewStart")
  /\ LET v == globals.lView
         containerTNode == globals.previousOrParentTNode
         slot == tObjects[containerTNode].index
         exists == lViews[v].slots[slot].views # <<>>
         tv == getOrCreateEmbeddedTView(tObjects, containerTNode, CurrentInstr.index,
                                        tView(EmbeddedBlock).bindingStartIndex)
         s0 == IF exists THEN TemplateState
               ELSE [TemplateState EXCEPT
                       !.views[EmbeddedBlock] =
                           createTemplateLView(EmbeddedBlock, tv.id),
                       !.views[v].slots[slot].views = <<EmbeddedBlock>>]
         s1 == enterView([s0 EXCEPT !.views[v].slots[slot].activeIndex = 1],
                         EmbeddedBlock, Null)
     IN /\ tObjects' = IF exists THEN tObjects ELSE tv.heap
        /\ ngDevMode' = count(ngDevMode, "tView", ~exists /\ tv.created)
        /\ viewsLeft' = IF exists THEN viewsLeft ELSE viewsLeft \ {EmbeddedBlock}
        /\ CommitTemplate(s1)
        /\ templateStep' = nextStep(s1, ctxValue, templateStep)
  /\ UNCHANGED <<running, ctxValue, ngPrivateData, hostView, patchData, oldData,
                 firstValue>>
  /\ UNCHANGED outsideTemplates

(* embeddedViewEnd(): the first template pass of the block is over, the     *)
(* embedded view is left for its parent.                                    *)
Template_embeddedViewEnd ==
  /\ AtInstr("embeddedViewEnd")
  /\ LET v == globals.lView
         s == leaveView(refreshDescendantViews(TemplateState, v), running)
     IN /\ tObjects' = [tObjects EXCEPT ![lViews[v].tView].firstTemplatePass = FALSE]
        /\ viewsLeft' = viewsLeft \cup {v}
        /\ CommitTemplate(s)
        /\ templateStep' = nextStep(s, ctxValue, templateStep)
  /\ UNCHANGED <<running, ctxValue, ngPrivateData, hostView, patchData, ngDevMode,
                 oldData, firstValue>>
  /\ UNCHANGED outsideTemplates

(* containerRefreshEnd(): the views of the container that the pass did not  *)
(* visit are removed and destroyed.                                         *)
Template_containerRefreshEnd ==
  /\ AtInstr("containerRefreshEnd")
  /\ LET v == globals.lView
         slot == slotIndex(CurrentInstr.index)
         remove == lViews[v].slots[slot].activeIndex = 0
                     /\ lViews[v].slots[slot].views # <<>>
         s == IF remove
                THEN [TemplateState EXCEPT !.views[v].slots[slot].views = <<>>,
                                           !.views[EmbeddedBlock] = noLView]
                ELSE TemplateState
     IN /\ viewsLeft' = IF remove THEN viewsLeft \ {EmbeddedBlock} ELSE viewsLeft
        /\ patchData' = IF remove THEN [patchData EXCEPT !["div"] = Null]
                        ELSE patchData
        /\ CommitTemplate(s)
        /\ templateStep' = nextStep(s, ctxValue, templateStep)
  /\ UNCHANGED <<running, ctxValue, ngPrivateData, tObjects, hostView, ngDevMode,
                 oldData, firstValue>>
  /\ UNCHANGED outsideTemplates

(* The objects the test keeps to compare with later: the TView of the       *)
(* function, the TNode of its container and the TNode of the element of     *)
(* the embedded view, each as soon as it exists.                            *)
templateData(heap, cached) ==
  LET container == IF cached = NoObject THEN NoObject
                   ELSE heap[cached].data[HEADER_OFFSET]
      tViews == IF container = NoObject THEN <<>> ELSE heap[container].tViews
  IN [template |-> cached,
      container |-> container,
      element |-> IF tViews = <<>> THEN NoObject
                  ELSE heap[tViews[1]].data[HEADER_OFFSET]]

(* The template function has returned: the first template pass is over,     *)
(* the host view is left.                                                   *)
renderToHtml_return ==
  /\ running # None
  /\ templateStep = Len(templateFn(running)) + 1
  /\ LET v == globals.lView
         s == leaveView(refreshDescendantViews(TemplateState, v), Null)
         seen == templateData(tObjects, ngPrivateData)
     IN /\ tObjects' = [tObjects EXCEPT ![lViews[v].tView].firstTemplatePass = FALSE]
        /\ viewsLeft' = viewsLeft \cup {v}
        /\ oldData' = [f \in DOMAIN oldData |->
                         IF oldData[f] = NoObject THEN seen[f] ELSE oldData[f]]
        /\ CommitTemplate(s)
        /\ templateStep' = 0
  /\ UNCHANGED <<running, ctxValue, ngPrivateData, hostView, patchData, ngDevMode,
                 firstValue>>
  /\ UNCHANGED outsideTemplates

TemplatesNext ==
  \/ it
  \/ renderToHtml
  \/ Template_container
  \/ Template_element
  \/ Template_text
  \/ Template_textBinding
  \/ Template_containerRefreshStart
  \/ Template_embeddedViewStart
  \/ Template_embeddedViewEnd
  \/ Template_containerRefreshEnd
  \/ renderToHtml_return

----------------------------------------------------------------------------
(* View containers: the ViewContainerRef tests 'should render inside        *)
(* another ng-container at the root of a delayed view' (part_000 893-964)   *)
(* and 'should support ViewContainerRef when ng-container is at the root    *)
(* of a view' (part_000 997-1053), the if block of 'should add and remove   *)
(* DOM nodes when ng-container is a child of a regular element' (part_000   *)
(* 656-699), and a component with <div *ngFor="let item of items">.  A      *)
(* view is created with an identity of its own and keeps its nodes while    *)
(* it is detached.                                                          *)

ContainerTests == {"NgFor", "DelayedView", "ViewContainerRef", "IfBlock"}

(* Views created in one test.                                               *)
MaxViewId == 4

(* Views attached at once by the tests that insert on request.              *)
MaxInserts == 3

Items == {1, 2, 3}

(* The values ctx.items takes: lists of distinct items.                     *)
ItemLists ==
  {l \in UNION {[1..n -> Items] : n \in 0..3} :
     \A i, j \in DOMAIN l : i # j => l[i] # l[j]}

(* What the template of the embedded view renders.                          *)
contentOf(test, item) ==
  CASE test = "NgFor" -> (CASE item = 1 -> "<div>1</div>"
                            [] item = 2 -> "<div>2</div>"
                            [] OTHER -> "<div>3</div>")
    [] test = "DelayedView" -> "content"
    [] test = "ViewContainerRef" -> "Content"
    [] OTHER -> "<div>content</div>"

ContainerState ==
  [views |-> lContainer, host |-> hostChildren, nextId |-> nextViewId,
   destroyed |-> destroyedViews]

CommitContainer(st) ==
  /\ lContainer' = st.views
  /\ hostChildren' = st.host
  /\ nextViewId' = st.nextId
  /\ destroyedViews' = st.destroyed

(* The sequence without its element at position p, and with x put at        *)
(* position p.                                                              *)
removeAt(seq, p) == SubSeq(seq, 1, p - 1) \o SubSeq(seq, p + 1, Len(seq))

insertAt(seq, p, x) == SubSeq(seq, 1, p - 1) \o <<x>> \o SubSeq(seq, p, Len(seq))

(* Position in a list of views of the view of an item, 0 when none.         *)
viewOfItem(attached, item) ==
  LET S == {p \in 1..Len(attached) : attached[p].item = item}
  IN IF S = {} THEN 0 ELSE CHOOSE p \in S : TRUE

(* Position among the nodes at the anchor of the node of a view.            *)
nodeOfView(host, id) == CHOOSE p \in 1..Len(host) : host[p].view = id

(* createEmbeddedView: a new view with its nodes, not attached yet.         *)
createEmbeddedView(id, test, item) ==
  [id |-> id, item |-> item, node |-> [view |-> id, text |-> contentOf(test, item)]]

(* insertView(lView, lContainer, index) and addRemoveViewFromContainer:     *)
(* the view takes the index in the container, its node goes in front of     *)
(* the node of the view that was at the index, or in front of the anchor.   *)
insertView(st, view, index) ==
  [st EXCEPT !.views = insertAt(@, index + 1, view),
             !.host = IF index < Len(st.views)
                        THEN insertAt(@, nodeOfView(@, st.views[index + 1].id), view.node)
                        ELSE Append(@, view.node)]

(* detachView(lContainer, removeIndex): the view leaves the container and   *)
(* its node the host.                                                       *)
detachView(st, index) ==
  [st EXCEPT !.views = removeAt(@, index + 1),
             !.host = removeAt(@, nodeOfView(@, st.views[index + 1].id))]

(* removeView: the view is detached and destroyed.                          *)
removeView(st, index) ==
  [detachView(st, index) EXCEPT !.destroyed = @ \cup {st.views[index + 1].id}]

(* ViewContainerRef.move(viewRef, newIndex): detach and insert of the same  *)
(* view.                                                                    *)
moveView(st, from, to) == insertView(detachView(st, from), st.views[from + 1], to)

(* ViewContainerRef.clear(): the views are removed from the last to the     *)
(* first.                                                                   *)
RECURSIVE clearViews(_)
clearViews(st) ==
  IF st.views = <<>> THEN st ELSE clearViews(removeView(st, Len(st.views) - 1))

(* The part of NgForOf's changes that removes: the views of the items that  *)
(* are gone, from the last to the first.                                    *)
RECURSIVE removeStale(_, _, _)
removeStale(st, list, p) ==
  IF p = 0 THEN st
  ELSE IF \E i \in DOMAIN list : list[i] = st.views[p].item
    THEN removeStale(st, list, p - 1)
    ELSE removeStale(removeView(st, p - 1), list, p - 1)

(* The part that adds and moves: item by item, a view that exists is moved  *)
(* to the index of its item and a view that does not is created there.      *)
RECURSIVE placeItems(_, _, _, _)
placeItems(st, test, list, i) ==
  IF i > Len(list) THEN st
  ELSE IF viewOfItem(st.views, list[i]) = 0
    THEN placeItems(
           insertView([st EXCEPT !.nextId = @ + 1],
                      createEmbeddedView(st.nextId, test, list[i]), i - 1),
           test, list, i + 1)
  ELSE IF viewOfItem(st.views, list[i]) # i
    THEN placeItems(moveView(st, viewOfItem(st.views, list[i]) - 1, i - 1),
                    test, list, i + 1)
  ELSE placeItems(st, test, list, i + 1)

(* Variant: every change of the items destroys all views and creates them   *)
(* again.                                                                   *)
applyChanges_Rebuild(st, test, list) ==
  placeItems(clearViews(st), test, list, 1)

(* NgForOf.ngDoCheck with a differ that found changes.                      *)
applyChanges(st, test, list) ==
  placeItems(removeStale(st, list, Len(st.views)), test, list, 1)

(* The number of views the next update pass of the ngFor creates.           *)
missingViews(attached, list) ==
  Cardinality({i \in DOMAIN list : viewOfItem(attached, list[i]) = 0})

(* A test starts with a new fixture; the component with the ngFor starts    *)
(* with items = [1, 2].                                                     *)
NewContainerFixture ==
  /\ \E t \in ContainerTests :
       /\ vcTest' = t
       /\ cmptItems' = IF t = "NgFor" THEN <<1, 2>> ELSE <<>>
       /\ pendingUpdate' = (t = "NgFor")
  /\ lContainer' = <<>>
  /\ hostChildren' = <<>>
  /\ nextViewId' = 1
  /\ destroyedViews' = {}
  /\ cmptValue' = FALSE
  /\ insertCount' = 0
  /\ prevContainer' = <<>>
  /\ UNCHANGED outsideContainers

(* fixture.component.items = ..., between two update passes.                *)
SetItems ==
  /\ vcTest = "NgFor"
  /\ ~pendingUpdate
  /\ \E l \in ItemLists :
       /\ l # cmptItems
       /\ nextViewId + missingViews(lContainer, l) <= MaxViewId + 1
       /\ cmptItems' = l
  /\ pendingUpdate' = TRUE
  /\ UNCHANGED <<vcTest, lContainer, hostChildren, nextViewId, destroyedViews,
                 cmptValue, insertCount, prevContainer>>
  /\ UNCHANGED outsideContainers

(* fixture.component.value = ...                                            *)
SetValue ==
  /\ vcTest = "IfBlock"
  /\ cmptValue' = ~cmptValue
  /\ pendingUpdate' = TRUE
  /\ UNCHANGED <<vcTest, lContainer, hostChildren, nextViewId, destroyedViews,
                 cmptItems, insertCount, prevContainer>>
  /\ UNCHANGED outsideContainers

(* testDirective.createAndInsert(), directive.insertView(): a view of the   *)
(* template is created and inserted at the end of the container.            *)
createAndInsert ==
  /\ vcTest \in {"DelayedView", "ViewContainerRef"}
  /\ Len(lContainer) < MaxInserts
  /\ nextViewId <= MaxViewId
  /\ \E st \in {ContainerState} :
       CommitContainer(insertView([st EXCEPT !.nextId = @ + 1],
                                  createEmbeddedView(st.nextId, vcTest, None),
                                  Len(st.views)))
  /\ pendingUpdate' = TRUE
  /\ insertCount' = insertCount + 1
  /\ UNCHANGED <<vcTest, cmptItems, cmptValue, prevContainer>>
  /\ UNCHANGED outsideContainers

(* testDirective.clear(), directive.clear()                                 *)
clear ==
  /\ vcTest \in {"DelayedView", "ViewContainerRef"}
  /\ \E st \in {ContainerState} : CommitContainer(clearViews(st))
  /\ pendingUpdate' = TRUE
  /\ insertCount' = 0
  /\ UNCHANGED <<vcTest, cmptItems, cmptValue, prevContainer>>
  /\ UNCHANGED outsideContainers

(* Variant: containerRefreshEnd() leaves the views that were not visited.   *)
refreshIfBlock_KeepViews(st, test, condition) ==
  IF condition /\ st.views = <<>>
    THEN insertView([st EXCEPT !.nextId = @ + 1],
                    createEmbeddedView(st.nextId, test, None), 0)
    ELSE st

(* The update pass of the if block: containerRefreshStart(0), the embedded  *)
(* view when ctx.value holds (created and inserted at index 0 unless it is  *)
(* there), containerRefreshEnd() which removes the views not visited.       *)
refreshIfBlock(st, test, condition) ==
  IF condition
    THEN IF st.views # <<>> THEN st
         ELSE insertView([st EXCEPT !.nextId = @ + 1],
                         createEmbeddedView(st.nextId, test, None), 0)
    ELSE clearViews(st)

(* fixture.update(): the update pass of the component.                      *)
fixtureUpdate ==
  /\ vcTest # None
  /\ vcTest = "IfBlock" /\ cmptValue => nextViewId <= MaxViewId
  /\ \E st \in {ContainerState} :
       CommitContainer(
         CASE vcTest = "NgFor" -> applyChanges(st, vcTest, cmptItems)
           [] vcTest = "IfBlock" -> refreshIfBlock(st, vcTest, cmptValue)
           [] OTHER -> st)
  /\ pendingUpdate' = FALSE
  /\ prevContainer' = lContainer
  /\ UNCHANGED <<vcTest, cmptItems, cmptValue, insertCount>>
  /\ UNCHANGED outsideContainers

ContainersNext ==
  \/ NewContainerFixture
  \/ SetItems
  \/ SetValue
  \/ createAndInsert
  \/ clear
  \/ fixtureUpdate

----------------------------------------------------------------------------
(* The template compiler, as the compliance tests observe it: compile()    *)
(* takes the components of one compilation and emits, into result.source,  *)
(* one template function per component, one per nested template and one    *)
(* listener function per event binding.  A template is the sequence of its *)
(* nodes in document order; parent is the position of the enclosing        *)
(* element (0 at the top), structural says that the element carries a      *)
(* structural directive such as ngIf or ngFor and so is wrapped in a       *)
(* nested template, event is the event the element listens to, "" for none. *)

Elem(tag, parent, structural, event) ==
  [tag |-> tag, parent |-> parent, structural |-> structural, event |-> event]

Text(parent) == Elem("#text", parent, FALSE, "")

(* The templates of AComponent and BComponent.                              *)
AComponent_template ==
  << Elem("div", 0, TRUE, ""),
       Elem("p", 1, TRUE, ""), Text(2),
       Elem("p", 1, TRUE, ""), Text(4),
     Elem("div", 0, TRUE, ""),
       Elem("p", 6, TRUE, ""), Text(7) >>

BComponent_template ==
  << Elem("div", 0, TRUE, ""),
       Elem("ng-container", 1, TRUE, ""),
         Elem("p", 2, TRUE, ""), Text(3),
         Elem("p", 2, TRUE, ""), Text(5),
       Elem("ng-container", 1, TRUE, ""),
         Elem("p", 7, TRUE, ""), Text(8),
     Elem("div", 0, TRUE, ""),
       Elem("ng-container", 10, TRUE, ""),
         Elem("p", 11, TRUE, ""), Text(12) >>

(* The template of MyComponent in the listener test.                        *)
MyComponent_template ==
  << Elem("div", 0, TRUE, ""),
       Elem("p", 1, FALSE, "click"), Text(2),
       Elem("p", 1, FALSE, "click"), Text(4),
     Elem("div", 0, TRUE, ""),
       Elem("p", 6, FALSE, "click"), Text(7) >>

Component(name, template) == [name |-> name, template |-> template]

MaxNodes == 3

Tags == {"div", "p"}

(* Every template of at most MaxNodes elements.                             *)
SmallTemplates ==
  UNION { { t \in [1..n -> [tag : Tags, parent : 0..(n - 1),
                            structural : BOOLEAN, event : {"", "click"}]] :
              \A i \in 1..n : t[i].parent < i } : n \in 1..MaxNodes }

Compilations ==
  { << Component("AComponent", AComponent_template),
       Component("BComponent", BComponent_template) >>,
    << Component("MyComponent", MyComponent_template) >> }
  \cup { << Component("MyComponent", t) >> : t \in SmallTemplates }

(* Identifier characters only: "ng-container" is emitted as ng_container.   *)
sanitizeIdentifier(tag) ==
  CASE tag = "ng-container" -> "ng_container"
    [] tag = "ng-template" -> "ng_template"
    [] OTHER -> tag

(* MyComponent_ul_0_li_1_Template: the context of the enclosing function,   *)
(* the tag and the slot the template takes in the enclosing function.       *)
nestedContextName_NoIndex(context, tag, index) ==
  context \o "_" \o sanitizeIdentifier(tag)

nestedContextName(context, tag, index) ==
  context \o "_" \o sanitizeIdentifier(tag) \o "_" \o ToString(index)

templateName(context) == context \o "_Template"

(* MyComponent_div_0_Template_div_click_0_listener.                         *)
listenerName(context, tag, event, index) ==
  templateName(context) \o "_" \o sanitizeIdentifier(tag) \o "_" \o event
    \o "_" \o ToString(index) \o "_listener"

RECURSIVE templateFunctionOf(_, _)
(* The function a node is emitted in: 0 for the component's template, else  *)
(* the position of the nearest enclosing structural element.                *)
templateFunctionOf(template, n) ==
  IF n = 0 THEN 0
  ELSE IF template[n].structural THEN n
  ELSE templateFunctionOf(template, template[n].parent)

(* The function the nested template of node n is declared in.               *)
declaringFunction(template, n) == templateFunctionOf(template, template[n].parent)

CurrentTemplate == srcFiles[compUnit].template

CurrentNode == CurrentTemplate[visitCursor]

Compiling == compUnit > 0 /\ visitCursor > 0

CompilationDone ==
  srcFiles # <<>> /\ compUnit = Len(srcFiles) /\ visitCursor = 0

Function(kind, name) == [kind |-> kind, name |-> name]

advance == IF visitCursor = Len(CurrentTemplate) THEN 0 ELSE visitCursor + 1

(* compile(files, angularFiles): the compilation of a test starts.          *)
compile(files) ==
  /\ srcFiles = <<>>
  /\ srcFiles' = files
  /\ compUnit' = 0
  /\ visitCursor' = 0
  /\ dataIndex' = <<>>
  /\ contextName' = <<>>
  /\ resultSource' = <<>>
  /\ UNCHANGED outsideCompiler

(* The next component of the compilation: its template function is          *)
(* <Name>_Template and its slots are counted from 0.                        *)
compileComponent ==
  /\ visitCursor = 0
  /\ compUnit < Len(srcFiles)
  /\ \E c \in {srcFiles[compUnit + 1]} :
       /\ compUnit' = compUnit + 1
       /\ visitCursor' = IF c.template = <<>> THEN 0 ELSE 1
       /\ dataIndex' = [v \in 0..Len(c.template) |-> 0]
       /\ contextName' = [v \in 0..Len(c.template) |->
                            IF v = 0 THEN c.name ELSE ""]
       /\ resultSource' =
            Append(resultSource, Function("template", templateName(c.name)))
  /\ UNCHANGED <<srcFiles>>
  /\ UNCHANGED outsideCompiler

(* An element with a structural directive: the nested template takes the    *)
(* next slot of the declaring function and is named after it; the element   *)
(* itself is slot 0 of the nested function, where its listener is emitted.  *)
visitTemplate ==
  /\ Compiling
  /\ CurrentNode.structural
  /\ \E n \in {visitCursor} :
     \E v \in {declaringFunction(CurrentTemplate, visitCursor)} :
     \E context \in {nestedContextName(contextName[v], CurrentNode.tag,
                                       dataIndex[v])} :
       /\ contextName' = [contextName EXCEPT ![n] = context]
       /\ dataIndex' = [dataIndex EXCEPT ![v] = @ + 1, ![n] = 1]
       /\ resultSource' =
            resultSource
              \o << Function("template", templateName(context)) >>
              \o (IF CurrentNode.event = "" THEN <<>>
                  ELSE << Function("listener",
                            listenerName(context, CurrentNode.tag,
                                         CurrentNode.event, 0)) >>)
  /\ visitCursor' = advance
  /\ UNCHANGED <<srcFiles, compUnit>>
  /\ UNCHANGED outsideCompiler

(* A plain element takes the next slot of the function it is in; its        *)
(* listener is named after that function, the tag, the event and the slot.  *)
visitElement ==
  /\ Compiling
  /\ ~CurrentNode.structural
  /\ CurrentNode.tag # "#text"
  /\ \E v \in {templateFunctionOf(CurrentTemplate, visitCursor)} :
       /\ dataIndex' = [dataIndex EXCEPT ![v] = @ + 1]
       /\ resultSource' =
            IF CurrentNode.event = "" THEN resultSource
            ELSE Append(resultSource,
                   Function("listener",
                     listenerName(contextName[v], CurrentNode.tag,
                                  CurrentNode.event, dataIndex[v])))
  /\ visitCursor' = advance
  /\ UNCHANGED <<srcFiles, compUnit, contextName>>
  /\ UNCHANGED outsideCompiler

(* A text node takes a slot and emits no function.                          *)
visitText ==
  /\ Compiling
  /\ CurrentNode.tag = "#text"
  /\ \E v \in {templateFunctionOf(CurrentTemplate, visitCursor)} :
       dataIndex' = [dataIndex EXCEPT ![v] = @ + 1]
  /\ visitCursor' = advance
  /\ UNCHANGED <<srcFiles, compUnit, contextName, resultSource>>
  /\ UNCHANGED outsideCompiler

CompilerNext ==
  \/ \E files \in Compilations : compile(files)
  \/ compileComponent
  \/ visitTemplate
  \/ visitElement
  \/ visitText

----------------------------------------------------------------------------
(* Context walking.  The views of the nested ngFor template of the          *)
(* compliance tests at run time: the component view, two views of the       *)
(* outer template, the views of the middle template declared in them and    *)
(* the views of the inner template declared in those.                       *)

NestedViews ==
  {"MyComponent", "ul0", "ul1", "li00", "li01", "li10",
   "div000", "div001", "div100"}

(* LView[DECLARATION_VIEW]: the view the template of a view is declared in. *)
DECLARATION_VIEW(view) ==
  CASE view \in {"ul0", "ul1"} -> "MyComponent"
    [] view \in {"li00", "li01"} -> "ul0"
    [] view = "li10" -> "ul1"
    [] view \in {"div000", "div001"} -> "li00"
    [] view = "div100" -> "li10"
    [] OTHER -> Null

(* LView[CONTEXT]: the component instance, or the context of the embedded   *)
(* view with the item it was created for.                                   *)
CONTEXT(view) ==
  IF view = "MyComponent" THEN [component |-> "MyComponent", implicit |-> Null]
  ELSE [component |-> Null, implicit |-> "item of " \o view]

RECURSIVE declarationDepth(_)
(* The nesting depth of the template a view belongs to.                     *)
declarationDepth(view) ==
  IF DECLARATION_VIEW(view) = Null THEN 0
  ELSE 1 + declarationDepth(DECLARATION_VIEW(view))

ContextCall(level, declared) == [level |-> level, declared |-> declared]

RECURSIVE contextReads(_, _, _)
(* The nextContext calls of a function at depth `from` below depth `depth`  *)
(* that reads variables declared at the depths in `declared`, nearest       *)
(* first: each call walks the difference to the depth reached before it.    *)
contextReads(depth, from, declared) ==
  IF depth < 0 THEN <<>>
  ELSE IF depth \in declared
    THEN <<ContextCall(from - depth, depth)>>
           \o contextReads(depth - 1, depth, declared)
  ELSE contextReads(depth - 1, from, declared)

RECURSIVE walkUpViews(_, _)
walkUpViews(nestingLevel, currentView) ==
  IF nestingLevel > 0
    THEN walkUpViews(nestingLevel - 1, DECLARATION_VIEW(currentView))
  ELSE currentView

(* Variant: every call walks up from the view that is being processed.      *)
nextContextImpl_FromLView(s, level) ==
  [s EXCEPT !.contextLView = walkUpViews(level, s.lView)]

nextContextImpl(s, level) ==
  [s EXCEPT !.contextLView = walkUpViews(level, s.contextLView)]

restoreView(s, viewToRestore) == [s EXCEPT !.contextLView = viewToRestore]

Read(call, value) ==
  [level |-> call.level, declared |-> call.declared, value |-> value]

(* ctx.$implicit: the function's own variable is read from its argument.    *)
ownRead(view, declared) ==
  IF declarationDepth(view) \in declared
    THEN <<Read(ContextCall(0, declarationDepth(view)), CONTEXT(view))>>
  ELSE <<>>

(* The update block of the template function of `view` starts: the view is  *)
(* entered, and the block reads the variables declared at the given depths. *)
templateUpdate(view, declared) ==
  /\ updateBlock = <<>>
  /\ walkState' = enterView(walkState, view, Null)
  /\ savedView' = view
  /\ updateBlock' = contextReads(declarationDepth(view) - 1,
                                 declarationDepth(view), declared)
  /\ contextLog' = ownRead(view, declared)
  /\ UNCHANGED outsideContext

(* A listener of `view` is called, whatever view was processed last: it     *)
(* restores the view it saved with getCurrentView() and reads its variables.*)
listenerCall(view, declared) ==
  /\ updateBlock = <<>>
  /\ walkState' = restoreView(walkState, view)
  /\ savedView' = view
  /\ updateBlock' = contextReads(declarationDepth(view) - 1,
                                 declarationDepth(view), declared)
  /\ contextLog' = ownRead(view, declared)
  /\ UNCHANGED outsideContext

(* The next nextContext(level) call of the block.                           *)
nextContext ==
  /\ updateBlock # <<>>
  /\ \E s \in {nextContextImpl(walkState, Head(updateBlock).level)} :
       /\ walkState' = s
       /\ contextLog' =
            Append(contextLog, Read(Head(updateBlock), CONTEXT(s.contextLView)))
  /\ updateBlock' = Tail(updateBlock)
  /\ UNCHANGED savedView
  /\ UNCHANGED outsideContext

ContextNext ==
  \/ \E view \in NestedViews :
     \E declared \in SUBSET (0..declarationDepth(view)) :
       templateUpdate(view, declared)
  \/ \E view \in NestedViews :
     \E declared \in SUBSET (0..declarationDepth(view)) :
       listenerCall(view, declared)
  \/ nextContext

----------------------------------------------------------------------------
(* Compilation of the styling of one element, as the styling compliance     *)
(* tests observe it.  The element is <div> at slot 0; its attributes are    *)
(* registered in the order they are written, and the instructions are       *)
(* built once all of them are registered.                                   *)

Binding(kind, target, name) == [kind |-> kind, target |-> target, name |-> name]

(* style="opacity:1", [attr.style], [style.width], [style],                 *)
(* [style.height], and the same for classes.                                *)
StylingPool ==
  { Binding("static", "style", "opacity"), Binding("attr", "style", "style"),
    Binding("prop", "style", "width"), Binding("map", "style", "myStyleExp"),
    Binding("prop", "style", "height"),
    Binding("static", "class", "grape"), Binding("attr", "class", "class"),
    Binding("prop", "class", "apple"), Binding("map", "class", "myClassExp"),
    Binding("prop", "class", "orange") }

StyleOrderTest ==
  << Binding("static", "style", "opacity"), Binding("attr", "style", "style"),
     Binding("prop", "style", "width"), Binding("map", "style", "myStyleExp"),
     Binding("prop", "style", "height") >>

ClassOrderTest ==
  << Binding("static", "class", "grape"), Binding("attr", "class", "class"),
     Binding("prop", "class", "apple"), Binding("map", "class", "myClassExp"),
     Binding("prop", "class", "orange") >>

(* [class] [class.foo] [style] [style.bar] [style.baz]                      *)
MixedOrderTest ==
  << Binding("map", "class", "myClassExp"), Binding("prop", "class", "apple"),
     Binding("map", "style", "myStyleExp"), Binding("prop", "style", "width"),
     Binding("prop", "style", "height") >>

MaxAttrs == 3

(* The elements of the tests, and every element with at most MaxAttrs       *)
(* different attributes of the pool, in every order.                        *)
StyledElements ==
  {StyleOrderTest, ClassOrderTest, MixedOrderTest}
  \cup UNION { { e \in [1..n -> StylingPool] :
                   \A i, j \in 1..n : i # j => e[i] # e[j] } : n \in 1..MaxAttrs }

newStylingBuilder ==
  [initialStyles |-> <<>>, initialClasses |-> <<>>,
   styleMap |-> <<>>, classMap |-> <<>>,
   singleStyles |-> <<>>, singleClasses |-> <<>>, attributes |-> <<>>]

(* One attribute is filed under its kind, after those filed before it.      *)
registerInput(b, input) ==
  CASE input.kind = "static" /\ input.target = "style" ->
         [b EXCEPT !.initialStyles = Append(@, input.name)]
    [] input.kind = "static" /\ input.target = "class" ->
         [b EXCEPT !.initialClasses = Append(@, input.name)]
    [] input.kind = "map" /\ input.target = "style" ->
         [b EXCEPT !.styleMap = <<input.name>>]
    [] input.kind = "map" /\ input.target = "class" ->
         [b EXCEPT !.classMap = <<input.name>>]
    [] input.kind = "prop" /\ input.target = "style" ->
         [b EXCEPT !.singleStyles = Append(@, input.name)]
    [] input.kind = "prop" /\ input.target = "class" ->
         [b EXCEPT !.singleClasses = Append(@, input.name)]
    [] OTHER -> [b EXCEPT !.attributes = Append(@, input.name)]

hasBindings(b) ==
  b.styleMap # <<>> \/ b.classMap # <<>>
    \/ b.singleStyles # <<>> \/ b.singleClasses # <<>>

Instruction(op, index, arg) == [op |-> op, index |-> index, arg |-> arg]

(* The creation block: the static values travel in the attributes of        *)
(* elementStart, and elementStyling follows when there is a binding.        *)
buildCreationInstructions(b) ==
  [i \in 1..Len(b.initialClasses) |->
     Instruction("elementStart:class", 0, b.initialClasses[i])]
  \o [i \in 1..Len(b.initialStyles) |->
     Instruction("elementStart:style", 0, b.initialStyles[i])]
  \o (IF hasBindings(b) THEN <<Instruction("elementStyling", 0, "")>> ELSE <<>>)

buildAttributeInstructions(b) ==
  [i \in 1..Len(b.attributes) |->
     Instruction("elementAttribute", 0, b.attributes[i])]

(* Variant: the single-property instructions are emitted before the map.    *)
buildUpdateLevelInstructions_PropsFirst(b) ==
  IF ~hasBindings(b) THEN <<>>
  ELSE [i \in 1..Len(b.singleStyles) |->
          Instruction("elementStyleProp", i - 1, b.singleStyles[i])]
    \o [i \in 1..Len(b.singleClasses) |->
          Instruction("elementClassProp", i - 1, b.singleClasses[i])]
    \o (IF b.styleMap # <<>> \/ b.classMap # <<>>
          THEN <<Instruction("elementStylingMap", 0, "")>> ELSE <<>>)
    \o <<Instruction("elementStylingApply", 0, "")>>

(* The styling instructions of the update block: the map, the style         *)
(* properties, the class properties, and the apply.                         *)
buildUpdateLevelInstructions(b) ==
  IF ~hasBindings(b) THEN <<>>
  ELSE (IF b.styleMap # <<>> \/ b.classMap # <<>>
          THEN <<Instruction("elementStylingMap", 0, "")>> ELSE <<>>)
    \o [i \in 1..Len(b.singleStyles) |->
          Instruction("elementStyleProp", i - 1, b.singleStyles[i])]
    \o [i \in 1..Len(b.singleClasses) |->
          Instruction("elementClassProp", i - 1, b.singleClasses[i])]
    \o <<Instruction("elementStylingApply", 0, "")>>

(* The compiler comes to an element of a template.                          *)
startElement(attrs) ==
  /\ elementAttrs = <<>>
  /\ elementAttrs' = attrs
  /\ attrCursor' = 1
  /\ UNCHANGED <<stylingBuilder, creationInstrs, updateInstrs>>
  /\ UNCHANGED outsideStylingCompiler

(* The next attribute of the element is registered.                         *)
registerAttribute ==
  /\ attrCursor \in DOMAIN elementAttrs
  /\ stylingBuilder' = registerInput(stylingBuilder, elementAttrs[attrCursor])
  /\ attrCursor' = attrCursor + 1
  /\ UNCHANGED <<elementAttrs, creationInstrs, updateInstrs>>
  /\ UNCHANGED outsideStylingCompiler

(* All attributes are registered: the two blocks of the element are built.  *)
buildInstructions ==
  /\ elementAttrs # <<>>
  /\ attrCursor = Len(elementAttrs) + 1
  /\ creationInstrs' = buildCreationInstructions(stylingBuilder)
  /\ updateInstrs' = buildUpdateLevelInstructions(stylingBuilder)
                       \o buildAttributeInstructions(stylingBuilder)
  /\ attrCursor' = 0
  /\ UNCHANGED <<elementAttrs, stylingBuilder>>
  /\ UNCHANGED outsideStylingCompiler

StylingCompilerNext ==
  \/ \E attrs \in StyledElements : startElement(attrs)
  \/ registerAttribute
  \/ buildInstructions

----------------------------------------------------------------------------
(* The sanitization tests.  A bound value is a plain string or a            *)
(* LocalSanitizedValue, the wrapper bypassSecurityTrustUrl returns.         *)

Plain(url) == [trusted |-> FALSE, value |-> url]

LocalSanitizedValue(url) == [trusted |-> TRUE, value |-> url]

bypassSecurityTrustUrl(url) == LocalSanitizedValue(url)

Urls == {"http://foo", "http://bar", "javascript:alert(1)"}

UrlValues == {Plain(u) : u \in Urls} \cup {bypassSecurityTrustUrl(u) : u \in Urls}

(* The interceptor both tests pass to LocalSanitizer.                       *)
interceptor(value) == "http://bar"

(* Variant: a trusted value goes through the interceptor as well.           *)
LocalSanitizer_sanitize_NoBypass(value) == interceptor(value)

(* LocalSanitizer.sanitize: a LocalSanitizedValue is unwrapped, any other  *)
(* value is replaced by what the interceptor returns.                       *)
LocalSanitizer_sanitize(value) ==
  IF value.trusted THEN value.value ELSE interceptor(value)

(* sanitizeUrl hands the value to the sanitizer of the view.                *)
sanitizeUrl(value) == LocalSanitizer_sanitize(value)

SanitizationTests == {"SanitizationComp", "UnsafeUrlHostBindingDir"}

(* href = '' in the component, cite = 'http://cite-dir-value' in the        *)
(* directive.                                                               *)
initialValue(test) ==
  IF test = "SanitizationComp" THEN Plain("") ELSE Plain("http://cite-dir-value")

(* bind(value): the value when it differs from the slot, else NO_CHANGE.    *)
bindValue(slot, value) == IF slot # value THEN value ELSE Plain("NO_CHANGE")

(* elementProperty(index, propName, value, sanitizer): on NO_CHANGE the     *)
(* element is left alone, else the sanitized value is written.              *)
elementProperty(attr, value) ==
  IF value = Plain("NO_CHANGE") THEN attr ELSE sanitizeUrl(value)

(* new ComponentFixture(Comp, {sanitizer}): the first passes run with the   *)
(* initial value.                                                           *)
NewSanitizationFixture(test) ==
  /\ sanTest = Null
  /\ sanTest' = test
  /\ sanValue' = initialValue(test)
  /\ sanSlot' = initialValue(test)
  /\ hostAttrs' = elementProperty(Null, bindValue(Plain("NO_CHANGE"),
                                                  initialValue(test)))
  /\ UNCHANGED outsideSanitization

(* fixture.component.updateLink(href), hostBindingDir.cite = value.         *)
updateLink(href) ==
  /\ sanTest # Null
  /\ sanValue' = href
  /\ UNCHANGED <<sanTest, sanSlot, hostAttrs>>
  /\ UNCHANGED outsideSanitization

(* fixture.update(): the update block, or the host binding function, binds  *)
(* the value through sanitizeUrl.                                           *)
sanitizationUpdate ==
  /\ sanTest # Null
  /\ hostAttrs' = elementProperty(hostAttrs, bindValue(sanSlot, sanValue))
  /\ sanSlot' = sanValue
  /\ UNCHANGED <<sanTest, sanValue>>
  /\ UNCHANGED outsideSanitization

SanitizationNext ==
  \/ \E test \in SanitizationTests : NewSanitizationFixture(test)
  \/ \E href \in UrlValues : updateLink(href)
  \/ sanitizationUpdate

----------------------------------------------------------------------------
(* TypeCheckContext (typecheck/src/context.ts).  A source file is an        *)
(* object with a file name and a text; every character of a text carries    *)
(* the index it has in the file it was read from, or -1 when it was         *)
(* generated, so that the original characters can be told apart in the      *)
(* transformed text.  Indices into a text count from 0, as in the source.   *)

Char(ch, at) == [ch |-> ch, at |-> at]

SourceText(chars) == [i \in 1..Len(chars) |-> Char(chars[i], i - 1)]

(* A class declaration: pos and end are the node's, end being the index     *)
(* after its closing brace; start is the index of its first token.          *)
ClassDecl(name, file, pos, start, end) ==
  [name |-> name, file |-> file, pos |-> pos, start |-> start, end |-> end]

(* a.ts: two classes on lines of their own.  b.ts: two classes with         *)
(* nothing between them and no newline at the end.  c.ts: one class.        *)
FileNames == {"a.ts", "b.ts", "c.ts"}

SourceFile(fileName) ==
  [fileName |-> fileName,
   original |-> TRUE,
   text |-> CASE fileName = "a.ts" ->
                   SourceText(<<"A", "{", "}", "\n", "B", "{", "}", "\n">>)
              [] fileName = "b.ts" ->
                   SourceText(<<"C", "{", "}", "D", "{", "}">>)
              [] OTHER -> SourceText(<<"E", "{", "}", "\n">>)]

Classes ==
  { ClassDecl("A", "a.ts", 0, 0, 3), ClassDecl("B", "a.ts", 3, 4, 7),
    ClassDecl("C", "b.ts", 0, 0, 3), ClassDecl("D", "b.ts", 3, 3, 6),
    ClassDecl("E", "c.ts", 0, 0, 3) }

MaxOps == 3

(* What stands before an extension in the file names in use.                *)
NameStems == {"", "a", "b", "c", "cmp", "lib", "lib.d"}

(* String.prototype.endsWith.                                               *)
endsWith(str, searchString) ==
  \E stem \in NameStems : stem \o searchString = str

(* The metadata addTemplate gives the type-check block of a component.      *)
tcbMeta(node) == [fnName |-> node.name \o "_TypeCheckBlock"]

(* The metadata addTemplate gives the type constructor of a directive: a    *)
(* body unless the directive is declared in a .d.ts file.                   *)
ctorMeta(dirNode) ==
  [fnName |-> "ngTypeCtor", body |-> ~endsWith(dirNode.file, ".d.ts")]

TcbOp(node, meta) == [kind |-> "TcbOp", node |-> node, meta |-> meta]

TypeCtorOp(node, meta) == [kind |-> "TypeCtorOp", node |-> node, meta |-> meta]

(* Variant: the type-check block is inserted at the end of the class.       *)
splitPoint_AtEnd(op) ==
  IF op.kind = "TcbOp" THEN op.node.end ELSE op.node.end - 1

(* TcbOp.splitPoint is node.end + 1, TypeCtorOp.splitPoint is node.end - 1. *)
splitPoint(op) ==
  IF op.kind = "TcbOp" THEN op.node.end + 1 ELSE op.node.end - 1

orderOps(op1, op2) == splitPoint(op1) - splitPoint(op2)

RECURSIVE insertSorted(_, _)
insertSorted(sorted, op) ==
  IF sorted = <<>> THEN <<op>>
  ELSE IF orderOps(sorted[Len(sorted)], op) <= 0 THEN Append(sorted, op)
  ELSE Append(insertSorted(SubSeq(sorted, 1, Len(sorted) - 1), op),
              sorted[Len(sorted)])

RECURSIVE sortOps(_)
(* ops.sort(orderOps): ascending split points, equal ones in recorded order.*)
sortOps(ops) ==
  IF ops = <<>> THEN <<>>
  ELSE insertSorted(sortOps(SubSeq(ops, 1, Len(ops) - 1)), ops[Len(ops)])

clamp(n, len) == IF n < 0 THEN 0 ELSE IF n > len THEN len ELSE n

(* String.prototype.substring: both indices are clamped to the string and   *)
(* swapped when the first is the larger.                                    *)
substring(str, from, to) ==
  IF clamp(from, Len(str)) <= clamp(to, Len(str))
    THEN SubSeq(str, clamp(from, Len(str)) + 1, clamp(to, Len(str)))
  ELSE SubSeq(str, clamp(to, Len(str)) + 1, clamp(from, Len(str)))

RECURSIVE splitsFrom(_, _, _, _)
splitsFrom(str, points, i, start) ==
  IF i > Len(points) THEN <<substring(str, start, Len(str))>>
  ELSE <<substring(str, start, points[i])>>
         \o splitsFrom(str, points, i + 1, points[i])

(* Variant: a chunk begins after the character at the split point.         *)
splitStringAtPoints_SkipAtPoint(str, points) ==
  [i \in 1..(Len(points) + 1) |->
     substring(str,
               IF i = 1 THEN 0 ELSE points[i - 1] + 1,
               IF i > Len(points) THEN Len(str) ELSE points[i])]

splitStringAtPoints(str, points) == splitsFrom(str, points, 1, 0)

(* op.execute: the printed type-check block or type constructor.            *)
execute(op) ==
  IF op.kind = "TcbOp"
    THEN <<Char(op.meta.fnName, -1)>>
  ELSE <<Char(op.meta.fnName \o " of " \o op.node.name, -1)>>

RECURSIVE joinParts(_, _, _)
(* ops.forEach: code += text + textParts[idx + 1].                          *)
joinParts(ops, textParts, idx) ==
  IF idx > Len(ops) THEN <<>>
  ELSE execute(ops[idx]) \o textParts[idx + 1] \o joinParts(ops, textParts, idx + 1)

(* ts.createSourceFile: a new source file object.                           *)
createSourceFile(fileName, code) ==
  [fileName |-> fileName, original |-> FALSE, text |-> code]

has(map, fileName) == fileName \in DOMAIN map

(* Variant: any pending operation, of whatever file, counts.                *)
transformFile_AnyPending(map, sf, imports) ==
  IF DOMAIN map = {} THEN sf
  ELSE createSourceFile(sf.fileName, imports \o <<Char("\n", -1)>> \o sf.text)

(* transform(sf): sf itself without pending operations, else the file       *)
(* parsed from the imports, a newline and the text with the generated code  *)
(* inserted at the split points.                                            *)
transformFile(map, sf, imports) ==
  IF ~has(map, sf.fileName) THEN sf
  ELSE createSourceFile(sf.fileName,
         imports \o <<Char("\n", -1)>>
           \o splitStringAtPoints(
                sf.text,
                [i \in DOMAIN map[sf.fileName] |->
                   splitPoint(sortOps(map[sf.fileName])[i])])[1]
           \o joinParts(
                sortOps(map[sf.fileName]),
                splitStringAtPoints(
                  sf.text,
                  [i \in DOMAIN map[sf.fileName] |->
                     splitPoint(sortOps(map[sf.fileName])[i])]),
                1))

(* if (!opMap.has(sf)) opMap.set(sf, []); opMap.get(sf).push(op).           *)
pushOp(map, fileName, op) ==
  IF has(map, fileName) THEN [map EXCEPT ![fileName] = Append(@, op)]
  ELSE [f \in DOMAIN map \cup {fileName} |->
          IF f = fileName THEN <<op>> ELSE map[f]]

RECURSIVE pendingOps(_, _)
pendingOps(map, files) ==
  IF files = {} THEN 0
  ELSE LET f == CHOOSE x \in files : TRUE
       IN Len(map[f]) + pendingOps(map, files \ {f})

(* addTypeCtor(sf, node, ctorMeta).                                         *)
addTypeCtor(node) ==
  /\ pendingOps(opMap, DOMAIN opMap) < MaxOps
  /\ opMap' = pushOp(opMap, node.file, TypeCtorOp(node, ctorMeta(node)))
  /\ UNCHANGED transformResult
  /\ UNCHANGED outsideTypeCheck

(* addTemplate(node, boundTarget): a type constructor for every directive   *)
(* the template uses, in the directive's file, then the type-check block    *)
(* of the component, in the component's file.                               *)
addTemplate(node, usedDirectives) ==
  /\ pendingOps(opMap, DOMAIN opMap) + Cardinality(usedDirectives) < MaxOps
  /\ Cardinality(usedDirectives) <= 1
  /\ opMap' =
       IF usedDirectives = {}
         THEN pushOp(opMap, node.file, TcbOp(node, tcbMeta(node)))
       ELSE pushOp(
              pushOp(opMap, (CHOOSE d \in usedDirectives : TRUE).file,
                     TypeCtorOp(CHOOSE d \in usedDirectives : TRUE,
                                ctorMeta(CHOOSE d \in usedDirectives : TRUE))),
              node.file, TcbOp(node, tcbMeta(node)))
  /\ UNCHANGED transformResult
  /\ UNCHANGED outsideTypeCheck

(* transform(sf); the sort leaves the operations of the file sorted.  The   *)
(* call is kept with the operations that were pending for the file and the  *)
(* other files that had operations pending.                                 *)
transform(fileName) ==
  /\ \E imports \in {<<>>, <<Char("import * as _i0", -1)>>} :
       transformResult' =
         <<[sf |-> SourceFile(fileName),
            ops |-> IF has(opMap, fileName) THEN opMap[fileName] ELSE <<>>,
            others |-> DOMAIN opMap \ {fileName},
            result |-> transformFile(opMap, SourceFile(fileName), imports)]>>
  /\ opMap' = IF has(opMap, fileName)
                THEN [opMap EXCEPT ![fileName] = sortOps(@)]
              ELSE opMap
  /\ UNCHANGED outsideTypeCheck

TypeCheckNext ==
  \/ \E node \in Classes : addTypeCtor(node)
  \/ \E node \in Classes : \E usedDirectives \in SUBSET (Classes \ {node}) :
       addTemplate(node, usedDirectives)
  \/ \E fileName \in FileNames : transform(fileName)

----------------------------------------------------------------------------
(* Directive matching under ngNonBindable.  The globals of state.ts are     *)
(* declared without a value: they are undefined (Null) until                *)
(* resetComponentState or a setter runs.  A creation block starts and ends  *)
(* elements; for an element with ngNonBindable it calls disableBindings()   *)
(* after elementStart and enableBindings() before elementEnd, as the        *)
(* blocks of the tests do.                                                  *)

MaxElements == 3

MaxElementDepth == 3

getBindingsEnabled(s) == s.bindingsEnabled

enableBindingsImpl(s) == [s EXCEPT !.bindingsEnabled = "true"]

disableBindingsImpl(s) == [s EXCEPT !.bindingsEnabled = "false"]

resetComponentStateImpl(s) ==
  [s EXCEPT !.isParent = "false", !.previousOrParentTNode = Null,
            !.elementDepthCount = "0", !.bindingsEnabled = "true"]

(* An open element: whether it carries ngNonBindable, and how far the       *)
(* block is with its pair of calls.                                         *)
OpenElement(nonBindable) ==
  [nonBindable |-> nonBindable,
   phase |-> IF nonBindable THEN "started" ELSE "bindable"]

(* Whether an element created now lies between a disableBindings() and the  *)
(* enableBindings() that matches it.                                        *)
insideNonBindable(open) ==
  \E i \in DOMAIN open : open[i].phase = "disabled"

(* new ComponentFixture(App): the state is reset and the creation block of  *)
(* the component starts.                                                    *)
NewBindingsFixture ==
  /\ componentState' = resetComponentStateImpl(componentState)
  /\ openElements' = <<>>
  /\ createdElements' = <<>>
  /\ UNCHANGED outsideBindings

(* elementStart(index, name, attrs, localRefs): directives are matched and  *)
(* local refs stored only while bindings are enabled.                       *)
Bindings_elementStart(directive, localRef, nonBindable) ==
  /\ componentState.bindingsEnabled # Null
  /\ Len(createdElements) < MaxElements
  /\ Len(openElements) < MaxElementDepth
  /\ openElements # <<>> =>
       openElements[Len(openElements)].phase \in {"bindable", "disabled"}
  /\ createdElements' =
       Append(createdElements,
         [directive |-> directive,
          localRef |-> localRef,
          nonBindable |-> nonBindable,
          inside |-> insideNonBindable(openElements),
          instantiated |->
            directive /\ getBindingsEnabled(componentState) = "true",
          localNames |->
            localRef /\ getBindingsEnabled(componentState) = "true"])
  /\ openElements' = Append(openElements, OpenElement(nonBindable))
  /\ UNCHANGED componentState
  /\ UNCHANGED outsideBindings

disableBindings ==
  /\ openElements # <<>>
  /\ openElements[Len(openElements)].phase = "started"
  /\ componentState' = disableBindingsImpl(componentState)
  /\ openElements' = [openElements EXCEPT ![Len(openElements)].phase = "disabled"]
  /\ UNCHANGED createdElements
  /\ UNCHANGED outsideBindings

enableBindings ==
  /\ openElements # <<>>
  /\ openElements[Len(openElements)].phase = "disabled"
  /\ componentState' = enableBindingsImpl(componentState)
  /\ openElements' = [openElements EXCEPT ![Len(openElements)].phase = "enabled"]
  /\ UNCHANGED createdElements
  /\ UNCHANGED outsideBindings

Bindings_elementEnd ==
  /\ openElements # <<>>
  /\ openElements[Len(openElements)].phase \in {"bindable", "enabled"}
  /\ openElements' = SubSeq(openElements, 1, Len(openElements) - 1)
  /\ UNCHANGED <<componentState, createdElements>>
  /\ UNCHANGED outsideBindings

BindingsNext ==
  \/ NewBindingsFixture
  \/ \E directive, localRef, nonBindable \in BOOLEAN :
       Bindings_elementStart(directive, localRef, nonBindable)
  \/ disableBindings
  \/ enableBindings
  \/ Bindings_elementEnd

----------------------------------------------------------------------------
(* The style binding with a suffix: an element with one style binding,      *)
(* written by the template with elementStyleProp(0, 0, ctx.time, 'px') and  *)
(* by the host bindings of a directive with elementHostStyleProp.           *)

(* The values the test assigns to time: '100', 200, 0 and null.             *)
TimeValues == {"100", JsNumber("200"), JsNumber("0"), Null}

(* An absent suffix is the empty string: `if (suffix)` is false for both.   *)
Suffixes == {"", "px"}

StyleWrite(directive, value, suffix, before) ==
  [directive |-> directive, value |-> value, suffix |-> suffix,
   before |-> before]

(* elementStyling(null, ['font-size']) and elementHostStyling of Dir1.      *)
Suffix_elementStyling ==
  /\ suffixStyling.registry = <<>>
  /\ suffixStyling' = elementHostStyling(elementStyling(suffixStyling), Dir1)
  /\ UNCHANGED suffixWrite
  /\ UNCHANGED outsideSuffix

(* elementStyleProp(0, 0, ctx.time, suffix) in the update block.            *)
Suffix_elementStyleProp(value, suffix) ==
  /\ suffixStyling.registry # <<>>
  /\ suffixStyling' = elementStyleProp(suffixStyling, 0, 0, value, suffix, FALSE)
  /\ suffixWrite' = <<StyleWrite(Template, value, suffix, suffixStyling.slots)>>
  /\ UNCHANGED outsideSuffix

(* elementHostStyleProp(0, value, suffix) in the host bindings of Dir1,     *)
(* which is the active host context while they run.                         *)
Suffix_elementHostStyleProp(value, suffix) ==
  /\ suffixStyling.registry # <<>>
  /\ suffixStyling' =
       elementStylePropInternal(suffixStyling, Dir1, 0, 0, value, suffix, FALSE)
  /\ suffixWrite' = <<StyleWrite(Dir1, value, suffix, suffixStyling.slots)>>
  /\ UNCHANGED outsideSuffix

SuffixNext ==
  \/ Suffix_elementStyling
  \/ \E value \in TimeValues : \E suffix \in Suffixes :
       Suffix_elementStyleProp(value, suffix)
  \/ \E value \in TimeValues : \E suffix \in Suffixes :
       Suffix_elementHostStyleProp(value, suffix)

----------------------------------------------------------------------------
(* The class toggle: an element with one class binding, written by the      *)
(* template with elementClassProp(0, 0, ctx.class) and by the host bindings *)
(* of a directive with elementHostClassProp, each followed by its apply     *)
(* instruction.                                                             *)

(* The values the test assigns to ctx.class (true, false, 'a_string', 10,   *)
(* '', 0) and the two other falsy values.                                   *)
ClassValues ==
  {"true", "false", "a_string", JsNumber("10"), "", JsNumber("0"), Null,
   Undefined}

ClassWrite(directive, value, before) ==
  [directive |-> directive, value |-> value, before |-> before]

(* elementStyling(['active']) and elementHostStyling of Dir1.               *)
Toggle_elementStyling ==
  /\ toggleStyling.registry = <<>>
  /\ toggleStyling' = elementHostStyling(elementStyling(toggleStyling), Dir1)
  /\ UNCHANGED toggleWrite
  /\ UNCHANGED outsideToggle

(* The update block: elementClassProp(0, 0, ctx.class);                     *)
(* elementStylingApply(0).                                                  *)
Toggle_elementClassProp(value) ==
  /\ toggleStyling.registry # <<>>
  /\ toggleStyling' =
       elementStylingApply(
         elementClassProp(toggleStyling, 0, 0, value, FALSE), 0)
  /\ toggleWrite' = <<ClassWrite(Template, value, toggleStyling.slots)>>
  /\ UNCHANGED outsideToggle

(* The host bindings of Dir1, which is the active host context while they   *)
(* run: elementHostClassProp(0, value); elementHostStylingApply().          *)
Toggle_elementHostClassProp(value) ==
  /\ toggleStyling.registry # <<>>
  /\ toggleStyling' =
       elementStylingApplyInternal(
         elementClassPropInternal(toggleStyling, Dir1, 0, 0, value, FALSE),
         Dir1, 0)
  /\ toggleWrite' = <<ClassWrite(Dir1, value, toggleStyling.slots)>>
  /\ UNCHANGED outsideToggle

ToggleNext ==
  \/ Toggle_elementStyling
  \/ \E value \in ClassValues : Toggle_elementClassProp(value)
  \/ \E value \in ClassValues : Toggle_elementHostClassProp(value)

----------------------------------------------------------------------------
(* Pipes in a template, as the compliance tests observe them                *)
(* (r3_view_compiler_styling_spec.ts 847-948, r3_view_compiler_template_    *)
(* spec.ts 636-678).  The template is the sequence of what the compiler     *)
(* visits: nodes, which take a data slot, and pipe references inside        *)
(* binding expressions, in the order the instructions use them.             *)

(* The template function of the component and the one of a nested           *)
(* template; each has its own data slots.                                   *)
TemplateScopes == {"MyComponent_Template", "MyComponent_div_0_Template"}

PipeNames == {"pipe", "stylePipe"}

MaxEntries == 5

NodeEntry(scope) == [kind |-> "node", scope |-> scope, name |-> Null]

(* `exp | name` in a binding of the template function `scope`.              *)
PipeRef(scope, name) == [kind |-> "pipe", scope |-> scope, name |-> name]

(* allocateDataSlot: the next data slot of the template function.           *)
allocateDataSlot(slotsOf, scope) == slotsOf[scope]

PipeInstruction(slot, name) == [op |-> "pipe", slot |-> slot, name |-> name]

PipeBind(slot, name) == [op |-> "pipeBind", slot |-> slot, name |-> name]

(* Slot of the earlier pipe instruction of the same name, 0 when none.      *)
slotOfName(block, name) ==
  IF \E i \in DOMAIN block : block[i].op = "pipe" /\ block[i].name = name
    THEN block[CHOOSE i \in DOMAIN block :
                 block[i].op = "pipe" /\ block[i].name = name].slot
    ELSE 0

(* Variant: a pipe name that already has a slot in the template function    *)
(* is given that slot again.                                                *)
visitPipe_SlotPerName(slotsOf, creation, update, ref) ==
  LET known == slotOfName(creation[ref.scope], ref.name)
      slot == allocateDataSlot(slotsOf, ref.scope)
  IN IF known # 0
       THEN [slots |-> slotsOf,
             creation |-> creation,
             update |-> [update EXCEPT ![ref.scope] =
                           Append(@, PipeBind(known, ref.name))]]
       ELSE [slots |-> [slotsOf EXCEPT ![ref.scope] = slot + 1],
             creation |-> [creation EXCEPT ![ref.scope] =
                             Append(@, PipeInstruction(slot, ref.name))],
             update |-> [update EXCEPT ![ref.scope] =
                           Append(@, PipeBind(slot, ref.name))]]

(* A pipe reference is converted: a slot is allocated, pipe(slot, name)     *)
(* goes to the creation block and the expression becomes                    *)
(* pipeBindN(slot, ...) in the update block.                                *)
visitPipe(slotsOf, creation, update, ref) ==
  LET slot == allocateDataSlot(slotsOf, ref.scope)
  IN [slots |-> [slotsOf EXCEPT ![ref.scope] = slot + 1],
      creation |-> [creation EXCEPT ![ref.scope] =
                      Append(@, PipeInstruction(slot, ref.name))],
      update |-> [update EXCEPT ![ref.scope] =
                    Append(@, PipeBind(slot, ref.name))]]

(* An element, text or template node of the template function `scope` is   *)
(* visited and takes the next data slot.                                    *)
Pipes_visitNode(scope) ==
  /\ Len(pipeTemplate) < MaxEntries
  /\ pipeTemplate' = Append(pipeTemplate, NodeEntry(scope))
  /\ LET slot == allocateDataSlot(dataSlots, scope)
     IN /\ dataSlots' = [dataSlots EXCEPT ![scope] = slot + 1]
        /\ pipeCreation' =
             [pipeCreation EXCEPT ![scope] =
                Append(@, [op |-> "node", slot |-> slot, name |-> Null])]
  /\ UNCHANGED pipeUpdate
  /\ UNCHANGED outsidePipes

(* The next binding expression of the template function `scope` holds       *)
(* `exp | name`.                                                            *)
Pipes_visitPipe(scope, name) ==
  /\ Len(pipeTemplate) < MaxEntries
  /\ pipeTemplate' = Append(pipeTemplate, PipeRef(scope, name))
  /\ \E r \in {visitPipe(dataSlots, pipeCreation, pipeUpdate,
                         PipeRef(scope, name))} :
       /\ dataSlots' = r.slots
       /\ pipeCreation' = r.creation
       /\ pipeUpdate' = r.update
  /\ UNCHANGED outsidePipes

PipesNext ==
  \/ \E scope \in TemplateScopes : Pipes_visitNode(scope)
  \/ \E scope \in TemplateScopes : \E name \in PipeNames :
       Pipes_visitPipe(scope, name)

----------------------------------------------------------------------------
(* Registration into the styling context of a node (elementStyling,         *)
(* elementHostStyling and initElementStyling of styling.ts).  The TNode     *)
(* holds the styling context (stylingTemplate, <<>> while absent, else      *)
(* <<[registry, bindings]>>) and the queue onElementCreationFns.  The       *)
(* directives of an element are created by elementStart, which runs their   *)
(* host bindings functions in creation mode; the template's elementStyling  *)
(* follows, and elementEnd runs the queue.                                  *)

RegDirectives == {Dir1, Dir2, "Dir3"}

(* The directive lists of an element: up to three different directives in   *)
(* any order.                                                               *)
DirectiveLists ==
  {ds \in UNION {[1..n -> RegDirectives] : n \in 0..3} :
     \A i, j \in DOMAIN ds : i # j => ds[i] # ds[j]}

(* The styling context with its directive registry and the sets of binding  *)
(* names registered so far.                                                 *)
EmptyContext == [registry |-> createEmptyStylingContext, bindings |-> <<>>]

(* if (!tNode.stylingTemplate) tNode.stylingTemplate =                      *)
(* createEmptyStylingContext().                                             *)
ensureStylingTemplate(tNode) ==
  IF tNode.stylingTemplate = <<>>
    THEN [tNode EXCEPT !.stylingTemplate = <<EmptyContext>>]
    ELSE tNode

(* updateContextWithBindings: the binding names of the directive (null for  *)
(* the template) become the next set of bindings of the context.            *)
updateContextWithBindings(context, directive, classNames, styleNames) ==
  [context EXCEPT !.bindings =
     Append(@, [directive |-> directive, classBindingNames |-> classNames,
                styleBindingNames |-> styleNames])]

initElementStyling(tNode, classNames, styleNames, directive) ==
  [tNode EXCEPT !.stylingTemplate =
     <<updateContextWithBindings(@[1], directive, classNames, styleNames)>>]

TNode_elementStyling(tNode, classNames, styleNames) ==
  initElementStyling(ensureStylingTemplate(tNode), classNames, styleNames, Null)

(* Variant: the directive's binding names are registered at once instead of *)
(* being queued.                                                            *)
TNode_elementHostStyling_Immediate(tNode, directive, classNames, styleNames) ==
  LET t == ensureStylingTemplate(tNode)
      allocated ==
        [t EXCEPT !.stylingTemplate =
           <<[@[1] EXCEPT !.registry = allocateDirectiveIntoContext(@, directive)]>>]
  IN initElementStyling(allocated, classNames, styleNames, directive)

(* The directive is allocated into the context right away; the closure that *)
(* registers its binding names is pushed to onElementCreationFns.           *)
TNode_elementHostStyling(tNode, directive, classNames, styleNames) ==
  LET t == ensureStylingTemplate(tNode)
  IN [t EXCEPT
        !.stylingTemplate =
          <<[@[1] EXCEPT !.registry = allocateDirectiveIntoContext(@, directive)]>>,
        !.onElementCreationFns =
          Append(@, [directive |-> directive, classBindingNames |-> classNames,
                     styleBindingNames |-> styleNames])]

(* The queued closures run in the order they were pushed.                   *)
RECURSIVE runCreationFns(_, _)
runCreationFns(tNode, fns) ==
  IF fns = <<>> THEN tNode
  ELSE runCreationFns(
         initElementStyling(tNode, Head(fns).classBindingNames,
                            Head(fns).styleBindingNames, Head(fns).directive),
         Tail(fns))

applyOnCreateInstructions(tNode) ==
  [runCreationFns(tNode, tNode.onElementCreationFns)
     EXCEPT !.onElementCreationFns = <<>>]

(* elementStart of an element with the given directives.                    *)
Registration_elementStart(directives) ==
  /\ elementPhase = "none"
  /\ hostDirectives' = directives
  /\ elementPhase' = IF directives = <<>> THEN "template" ELSE "host"
  /\ UNCHANGED <<stylingTNode, hostRan, templateStyled>>
  /\ UNCHANGED outsideRegistration

(* The host bindings function of the next directive runs in creation mode;  *)
(* it calls elementHostStyling when the directive has styling host          *)
(* bindings.                                                                *)
Registration_hostBindings(styled) ==
  /\ elementPhase = "host"
  /\ LET directive == hostDirectives[Len(hostRan) + 1]
     IN /\ stylingTNode' =
             IF styled
               THEN TNode_elementHostStyling(stylingTNode, directive,
                                             classBindingNames, styleBindingNames)
               ELSE stylingTNode
        /\ hostRan' = Append(hostRan, [directive |-> directive, styled |-> styled])
  /\ elementPhase' =
       IF Len(hostRan) + 1 = Len(hostDirectives) THEN "template" ELSE "host"
  /\ UNCHANGED <<hostDirectives, templateStyled>>
  /\ UNCHANGED outsideRegistration

(* elementStyling(classBindingNames, styleBindingNames) in the creation     *)
(* block of the template.                                                   *)
Registration_elementStyling ==
  /\ elementPhase = "template"
  /\ ~templateStyled
  /\ stylingTNode' =
       TNode_elementStyling(stylingTNode, classBindingNames, styleBindingNames)
  /\ templateStyled' = TRUE
  /\ UNCHANGED <<hostDirectives, hostRan, elementPhase>>
  /\ UNCHANGED outsideRegistration

(* elementEnd: the element-creation queue of the node is run.               *)
Registration_elementEnd ==
  /\ elementPhase = "template"
  /\ stylingTNode' = applyOnCreateInstructions(stylingTNode)
  /\ elementPhase' = "ended"
  /\ UNCHANGED <<hostDirectives, hostRan, templateStyled>>
  /\ UNCHANGED outsideRegistration

RegistrationNext ==
  \/ \E directives \in DirectiveLists : Registration_elementStart(directives)
  \/ \E styled \in BOOLEAN : Registration_hostBindings(styled)
  \/ Registration_elementStyling
  \/ Registration_elementEnd

----------------------------------------------------------------------------
(* Context discovery (getLContext of render3/context_discovery.ts) as the   *)
(* tests of src/unnamed/part_000 2541-3100 observe it.  ParentComp renders  *)
(* <child-comp my-dir-1 my-dir-2>; ChildComp renders <div><span></span>     *)
(* </div>.  A div created with document.createElement is appended to        *)
(* child-comp, another one is left detached.                                *)

ParentView == "ParentComp.lView"

ChildView == "ChildComp.lView"

(* DOM nodes, directive instances and the component instance.               *)
DomNodes == {"child-comp", "div", "span", "manuallyCreatedElement", "elm1"}

DirectiveInstances == {"myDir1Instance", "myDir2Instance"}

ComponentInstances == {"childComponentInstance"}

DiscoveryTargets == DomNodes \cup DirectiveInstances \cup ComponentInstances

(* The nodes of each LView: native node, component and directives of the    *)
(* slot at HEADER_OFFSET + i.                                               *)
ViewNodes(view) ==
  IF view = ParentView
    THEN <<[native |-> "child-comp", component |-> "childComponentInstance",
            directives |-> <<"myDir1Instance", "myDir2Instance">>]>>
    ELSE <<[native |-> "div", component |-> Null, directives |-> <<>>],
           [native |-> "span", component |-> Null, directives |-> <<>>]>>

(* parentNode of a DOM node, null at the top and for a detached node.       *)
parentNode(node) ==
  CASE node = "span" -> "div"
    [] node = "div" -> "child-comp"
    [] node = "manuallyCreatedElement" -> "child-comp"
    [] OTHER -> Null

(* The value under the monkey-patch key: nothing, an LView (an array) or an *)
(* LContext object.                                                         *)
NotPatched == [kind |-> "none", lView |-> Null, context |-> 0]

PatchedLView(view) == [kind |-> "lView", lView |-> view, context |-> 0]

PatchedContext(c) == [kind |-> "context", lView |-> Null, context |-> c]

(* Index of the slot of the view that holds the target, -1 when none does.  *)
findViaNativeElement(view, target) ==
  IF \E i \in DOMAIN ViewNodes(view) : ViewNodes(view)[i].native = target
    THEN HEADER_OFFSET - 1
           + (CHOOSE i \in DOMAIN ViewNodes(view) : ViewNodes(view)[i].native = target)
    ELSE -1

findViaComponent(view, target) ==
  IF \E i \in DOMAIN ViewNodes(view) : ViewNodes(view)[i].component = target
    THEN HEADER_OFFSET - 1
           + (CHOOSE i \in DOMAIN ViewNodes(view) : ViewNodes(view)[i].component = target)
    ELSE -1

findViaDirective(view, target) ==
  IF \E i \in DOMAIN ViewNodes(view) :
       \E d \in DOMAIN ViewNodes(view)[i].directives :
         ViewNodes(view)[i].directives[d] = target
    THEN HEADER_OFFSET - 1
           + (CHOOSE i \in DOMAIN ViewNodes(view) :
                \E d \in DOMAIN ViewNodes(view)[i].directives :
                  ViewNodes(view)[i].directives[d] = target)
    ELSE -1

nodeAt(view, nodeIndex) == ViewNodes(view)[nodeIndex - HEADER_OFFSET + 1]

(* createLContext: component and directives are undefined until they are    *)
(* discovered (<<>> for undefined, <<list>> for a list).                    *)
createLContext(view, nodeIndex, rNode) ==
  [lView |-> view, nodeIndex |-> nodeIndex, native |-> rNode,
   component |-> Null, directives |-> <<>>]

DiscoveryState == [patch |-> monkeyPatch, contexts |-> lContexts]

NoContext == 0

(* The LContext of the node at nodeIndex for a target patched with an       *)
(* LView: the one the native node is patched with, else a new one; the      *)
(* component or the directives, once discovered, and the native node are    *)
(* patched with it.                                                         *)
contextOfNode(s, view, nodeIndex, component, directives, reuse) ==
  LET rNode == nodeAt(view, nodeIndex).native
      existing == s.patch[rNode]
      isNew == ~(reuse /\ existing.kind = "context")
      c == IF isNew THEN Len(s.contexts) + 1 ELSE existing.context
      ctx0 == IF isNew THEN createLContext(view, nodeIndex, rNode)
              ELSE s.contexts[c]
      setComponent == component # Null /\ ctx0.component = Null
      setDirectives == directives # <<>> /\ ctx0.directives = <<>>
      ctx1 == [ctx0 EXCEPT
                 !.component = IF setComponent THEN component ELSE @,
                 !.directives = IF setDirectives THEN directives ELSE @]
      patched ==
        {rNode}
          \cup (IF setComponent THEN {component} ELSE {})
          \cup (IF setDirectives
                  THEN {directives[1][d] : d \in DOMAIN directives[1]} ELSE {})
  IN [state |->
        [patch |-> [t \in DiscoveryTargets |->
                      IF t \in patched THEN PatchedContext(c) ELSE s.patch[t]],
         contexts |-> IF isNew THEN Append(s.contexts, ctx1)
                      ELSE [s.contexts EXCEPT ![c] = ctx1]],
      result |-> c]

(* The nearest ancestor whose LView holds the target gives the context of a *)
(* DOM node that is not patched; the search ends without one at the top.    *)
RECURSIVE discoverViaParents(_, _, _)
discoverViaParents(s, target, node) ==
  LET parent == parentNode(node)
  IN IF parent = Null THEN [state |-> s, result |-> NoContext]
     ELSE LET data == s.patch[parent]
              view == IF data.kind = "lView" THEN data.lView
                      ELSE IF data.kind = "context"
                        THEN s.contexts[data.context].lView
                      ELSE Null
          IN IF view # Null /\ findViaNativeElement(view, target) >= 0
               THEN LET c == Len(s.contexts) + 1
                        index == findViaNativeElement(view, target)
                    IN [state |->
                          [patch |-> [s.patch EXCEPT ![target] = PatchedContext(c)],
                           contexts |-> Append(s.contexts,
                                               createLContext(view, index, target))],
                        result |-> c]
               ELSE discoverViaParents(s, target, parent)

(* Variant: a target patched with an LView always gets an LContext of its   *)
(* own.                                                                     *)
getLContextImpl_AlwaysNew(s, target) ==
  LET data == s.patch[target]
  IN IF data.kind = "context" THEN [state |-> s, result |-> data.context]
     ELSE IF data.kind = "lView"
       THEN IF target \in ComponentInstances
              THEN contextOfNode(s, data.lView,
                                 findViaComponent(data.lView, target),
                                 target, <<>>, FALSE)
            ELSE IF target \in DirectiveInstances
              THEN LET nodeIndex == findViaDirective(data.lView, target)
                   IN contextOfNode(s, data.lView, nodeIndex, Null,
                                    <<nodeAt(data.lView, nodeIndex).directives>>,
                                    FALSE)
            ELSE IF findViaNativeElement(data.lView, target) = -1
              THEN [state |-> s, result |-> NoContext]
            ELSE contextOfNode(s, data.lView,
                               findViaNativeElement(data.lView, target),
                               Null, <<>>, FALSE)
     ELSE discoverViaParents(s, target, target)

(* getLContext(target): the new state and the LContext returned             *)
(* (NoContext for null).                                                    *)
getLContextImpl(s, target) ==
  LET data == s.patch[target]
  IN IF data.kind = "context" THEN [state |-> s, result |-> data.context]
     ELSE IF data.kind = "lView"
       THEN IF target \in ComponentInstances
              THEN contextOfNode(s, data.lView,
                                 findViaComponent(data.lView, target),
                                 target, <<>>, TRUE)
            ELSE IF target \in DirectiveInstances
              THEN LET nodeIndex == findViaDirective(data.lView, target)
                   IN contextOfNode(s, data.lView, nodeIndex, Null,
                                    <<nodeAt(data.lView, nodeIndex).directives>>,
                                    TRUE)
            ELSE IF findViaNativeElement(data.lView, target) = -1
              THEN [state |-> s, result |-> NoContext]
            ELSE contextOfNode(s, data.lView,
                               findViaNativeElement(data.lView, target),
                               Null, <<>>, TRUE)
     ELSE discoverViaParents(s, target, target)

(* What the runtime patches when it creates the views: the root elements of *)
(* each view, the directive instances and the component instance, each with *)
(* the LView that holds it.                                                 *)
patchedAtCreation(target) ==
  CASE target \in {"child-comp", "myDir1Instance", "myDir2Instance",
                   "childComponentInstance"} -> PatchedLView(ParentView)
    [] target = "div" -> PatchedLView(ChildView)
    [] OTHER -> NotPatched

(* new ComponentFixture(ParentComp); fixture.update().                      *)
Discovery_fixtureUpdate ==
  /\ monkeyPatch["child-comp"] = NotPatched
  /\ monkeyPatch' = [t \in DiscoveryTargets |-> patchedAtCreation(t)]
  /\ UNCHANGED <<lContexts, discoveryLog>>
  /\ UNCHANGED outsideDiscovery

(* const context = getLContext(target), once the fixture is rendered.       *)
Discovery_getLContext(target) ==
  /\ monkeyPatch["child-comp"] # NotPatched
  /\ \E r \in {getLContextImpl(DiscoveryState, target)} :
       /\ monkeyPatch' = r.state.patch
       /\ lContexts' = r.state.contexts
       /\ discoveryLog' = <<[target |-> target, result |-> r.result,
                             before |-> DiscoveryState]>>
  /\ UNCHANGED outsideDiscovery

DiscoveryNext ==
  \/ Discovery_fixtureUpdate
  \/ \E target \in DiscoveryTargets : Discovery_getLContext(target)

----------------------------------------------------------------------------
(* Nested enterView / leaveView calls (state.ts).  A caller keeps the view  *)
(* enterView returned and passes it to leaveView when it is done:           *)
(*   const oldView = enterView(view, host); try {...} finally               *)
(*   { leaveView(oldView); }                                                *)
(* Between the two calls the template function of the view runs.            *)

MaxNesting == 3

HostTNodes == {Null, "hostTNode"}

Caller(old, view) == [oldView |-> old, view |-> view]

(* const oldView = enterView(newView, hostTNode).                           *)
ViewStack_enterView(newView, hostTNode) ==
  /\ Len(callers) < MaxNesting
  /\ viewState' = enterView(viewState, newView, hostTNode)
  /\ callers' = Append(callers, Caller(enterView_return(viewState), newView))
  /\ stateLog' = <<[op |-> "enterView", newView |-> newView,
                    hostTNode |-> hostTNode, thrown |-> FALSE,
                    returned |-> enterView_return(viewState),
                    before |-> viewState]>>
  /\ UNCHANGED hookThrew
  /\ UNCHANGED outsideViewStack

(* The template function of the current view runs: a node is created and    *)
(* becomes the cursor, the bindings are read, nextContext() moves the       *)
(* context view to the view entered before, and the view may be marked      *)
(* dirty.                                                                   *)
ViewStack_template(dirty) ==
  /\ callers # <<>>
  /\ viewState.lView # Null
  /\ viewState' =
       [viewState EXCEPT
          !.previousOrParentTNode = "tNode",
          !.isParent = FALSE,
          !.contextLView =
            IF callers[Len(callers)].oldView # Null
              THEN callers[Len(callers)].oldView ELSE @,
          !.views[viewState.lView].bindingIndex =
            tView(viewState.lView).bindingStartIndex + tView(viewState.lView).vars,
          !.views[viewState.lView].flags =
            IF dirty THEN @ \cup {"Dirty"} ELSE @]
  /\ stateLog' = <<>>
  /\ UNCHANGED <<callers, hookThrew>>
  /\ UNCHANGED outsideViewStack

(* leaveView(oldView) of the innermost caller; a view hook of the view      *)
(* being left may throw, and the error ends the caller.                     *)
ViewStack_leaveView(hookThrows) ==
  /\ callers # <<>>
  /\ viewState.lView # Null
  /\ \E r \in {leaveViewImpl(viewState, callers[Len(callers)].oldView, hookThrows)} :
       /\ viewState' = r.state
       /\ stateLog' = <<[op |-> "leaveView",
                         newView |-> callers[Len(callers)].oldView,
                         hostTNode |-> Null, thrown |-> r.thrown,
                         returned |-> Null, before |-> viewState]>>
       /\ hookThrew' = (hookThrew \/ r.thrown)
  /\ callers' = SubSeq(callers, 1, Len(callers) - 1)
  /\ UNCHANGED outsideViewStack

ViewStackNext ==
  \/ \E newView \in ViewIds : \E hostTNode \in HostTNodes :
       ViewStack_enterView(newView, hostTNode)
  \/ \E dirty \in BOOLEAN : ViewStack_template(dirty)
  \/ \E hookThrows \in BOOLEAN : ViewStack_leaveView(hookThrows)

----------------------------------------------------------------------------
(* Recording type-check operations (typecheck/src/context.ts 46-88,         *)
(* 137-145).  Two components and a directive are declared in cmp.ts, a      *)
(* second directive in the declaration file lib.d.ts.                       *)

Cmp1 == ClassDecl("Cmp1", "cmp.ts", 0, 0, 6)
Cmp2 == ClassDecl("Cmp2", "cmp.ts", 6, 7, 13)
Dir == ClassDecl("Dir", "cmp.ts", 13, 14, 19)
Lib == ClassDecl("Lib", "lib.d.ts", 0, 0, 5)

RecComponents == {Cmp1, Cmp2}

RecDirectives == {Dir, Lib}

(* boundTarget.getUsedDirectives(): the directives of a template, without   *)
(* repetition, in some order.                                               *)
UsedDirectiveLists == {<<>>, <<Dir>>, <<Lib>>, <<Dir, Lib>>, <<Lib, Dir>>}

(* The metadata a caller may pass to addTypeCtor.                           *)
CtorMetas == {[fnName |-> "ngTypeCtor", body |-> b] : b \in BOOLEAN}

MaxCalls == 3

(* Variant: a class keeps one type constructor, later ones are dropped.     *)
TypeCheckContext_addTypeCtor_OncePerClass(map, node, meta) ==
  IF has(map, node.file)
     /\ \E i \in DOMAIN map[node.file] :
          /\ map[node.file][i].kind = "TypeCtorOp"
          /\ map[node.file][i].node = node
    THEN map
  ELSE pushOp(map, node.file, TypeCtorOp(node, meta))

(* addTypeCtor(sf, node, ctorMeta): a TypeCtorOp is pushed on the queue of  *)
(* the source file, which is created when the file has none.                *)
TypeCheckContext_addTypeCtor(map, node, meta) ==
  pushOp(map, node.file, TypeCtorOp(node, meta))

(* addTypeCheckBlock(sf, node, tcbMeta).                                    *)
TypeCheckContext_addTypeCheckBlock(map, node, meta) ==
  pushOp(map, node.file, TcbOp(node, meta))

RECURSIVE forEachUsedDirective(_, _)
(* getUsedDirectives().forEach(dir => this.addTypeCtor(...)).               *)
forEachUsedDirective(map, dirs) ==
  IF dirs = <<>> THEN map
  ELSE forEachUsedDirective(
         TypeCheckContext_addTypeCtor(map, Head(dirs), ctorMeta(Head(dirs))),
         Tail(dirs))

(* addTemplate(node, boundTarget): the type constructors of the used        *)
(* directives, then the type-check block of the component.                  *)
TypeCheckContext_addTemplate(map, node, dirs) ==
  TypeCheckContext_addTypeCheckBlock(
    forEachUsedDirective(map, dirs), node, tcbMeta(node))

RecordedCall(call, node, dirs, meta) ==
  [call |-> call, node |-> node, dirs |-> dirs, meta |-> meta]

Recording_addTemplate(node, dirs) ==
  /\ Len(recordCalls) < MaxCalls
  /\ recordedOps' = TypeCheckContext_addTemplate(recordedOps, node, dirs)
  /\ recordCalls' =
       Append(recordCalls, RecordedCall("addTemplate", node, dirs, tcbMeta(node)))
  /\ UNCHANGED outsideRecording

Recording_addTypeCtor(node, meta) ==
  /\ Len(recordCalls) < MaxCalls
  /\ recordedOps' = TypeCheckContext_addTypeCtor(recordedOps, node, meta)
  /\ recordCalls' =
       Append(recordCalls, RecordedCall("addTypeCtor", node, <<>>, meta))
  /\ UNCHANGED outsideRecording

RecordingNext ==
  \/ \E node \in RecComponents : \E dirs \in UsedDirectiveLists :
       Recording_addTemplate(node, dirs)
  \/ \E node \in RecDirectives : \E meta \in CtorMetas :
       Recording_addTypeCtor(node, meta)

----------------------------------------------------------------------------
(* elementStylingMap and elementHostStylingMap on an element whose          *)
(* directives may have a class or a style input (part_001 309-375,          *)
(* part_000 1688-1798).  A bound value is NO_CHANGE, null, a string of      *)
(* class names or a map of styles.  The functions of styling/util.ts,       *)
(* styling/class_and_style_bindings.ts and instructions/shared.ts that the  *)
(* instruction calls are modelled by what the tests show of them.           *)

ClassString(text) == [kind |-> "string", text |-> text]

StyleEntry(prop, value) == [prop |-> prop, value |-> value]

StyleMap(entries) == [kind |-> "map", entries |-> entries]

RECURSIVE joinStrings(_, _)
(* Array.prototype.join.                                                    *)
joinStrings(strings, separator) ==
  IF strings = <<>> THEN ""
  ELSE IF Len(strings) = 1 THEN strings[1]
  ELSE strings[1] \o separator \o joinStrings(Tail(strings), separator)

(* The static class names of the element, separated by spaces.              *)
getInitialClassNameValue(context) == joinStrings(context.initialClasses, " ")

(* The static styles of the element as prop:value pairs separated by ';'.   *)
getInitialStyleStringValue(context) ==
  joinStrings([i \in DOMAIN context.initialStyles |->
                 context.initialStyles[i].prop \o ":"
                   \o context.initialStyles[i].value], ";")

(* A string of class names is returned as it is, null as ''.                *)
forceClassesAsString(classes) ==
  IF classes.kind = "string" THEN classes.text ELSE ""

(* The entries of a map as prop:value pairs separated by ';', null as ''.   *)
forceStylesAsString(styles) ==
  IF styles.kind = "map"
    THEN joinStrings([i \in DOMAIN styles.entries |->
                        styles.entries[i].prop \o ":" \o styles.entries[i].value],
                     ";")
  ELSE ""

hasClassInput(tNode) == "class" \in tNode.inputs

hasStyleInput(tNode) == "style" \in tNode.inputs

(* setInputsForProperty: the directives' setters of the input receive the   *)
(* value.                                                                    *)
setInputsForProperty(s, property, value) ==
  [s EXCEPT !.inputValues[property] = value, !.inputsSet = @ \cup {property}]

(* updateStylingMap, as far as the values it is handed.                     *)
TNode_updateStylingMap(s, classes, styles, directive) ==
  [s EXCEPT !.updated = [classes |-> classes, styles |-> styles,
                         directive |-> directive]]

(* Variant: the style input is built from the initial styles.               *)
TNode_elementStylingMapInternal_InitialStyles(s, directive, index, classes, styles) ==
  LET delegateClasses ==
        directive = Null /\ hasClassInput(s.tNode) /\ classes # NO_CHANGE
      delegateStyles ==
        directive = Null /\ hasStyleInput(s.tNode) /\ styles # NO_CHANGE
      s1 == IF delegateClasses
              THEN setInputsForProperty(
                     s, "class",
                     (IF getInitialClassNameValue(s.stylingContext) # ""
                        THEN getInitialClassNameValue(s.stylingContext) \o " "
                      ELSE "") \o forceClassesAsString(classes))
            ELSE s
      s2 == IF delegateStyles
              THEN setInputsForProperty(
                     s1, "style",
                     (IF getInitialStyleStringValue(s.stylingContext) # ""
                        THEN getInitialStyleStringValue(s.stylingContext) \o " "
                      ELSE "") \o forceStylesAsString(styles))
            ELSE s1
  IN TNode_updateStylingMap(
       s2,
       IF delegateClasses THEN NO_CHANGE ELSE classes,
       IF delegateStyles THEN NO_CHANGE ELSE styles,
       directive)

(* elementStylingMapInternal (part_001 346-375).  Only a template call      *)
(* (directive null) evaluates the inputs.  Both branches read               *)
(* getInitialClassNameValue(stylingContext): the value for the style input  *)
(* is the initial class names, a space when there are any, and the styles   *)
(* as a string.                                                             *)
TNode_elementStylingMapInternal(s, directive, index, classes, styles) ==
  LET delegateClasses ==
        directive = Null /\ hasClassInput(s.tNode) /\ classes # NO_CHANGE
      delegateStyles ==
        directive = Null /\ hasStyleInput(s.tNode) /\ styles # NO_CHANGE
      s1 == IF delegateClasses
              THEN setInputsForProperty(
                     s, "class",
                     (IF getInitialClassNameValue(s.stylingContext) # ""
                        THEN getInitialClassNameValue(s.stylingContext) \o " "
                      ELSE "") \o forceClassesAsString(classes))
            ELSE s
      s2 == IF delegateStyles
              THEN setInputsForProperty(
                     s1, "style",
                     (IF getInitialClassNameValue(s.stylingContext) # ""
                        THEN getInitialClassNameValue(s.stylingContext) \o " "
                      ELSE "") \o forceStylesAsString(styles))
            ELSE s1
  IN TNode_updateStylingMap(
       s2,
       IF delegateClasses THEN NO_CHANGE ELSE classes,
       IF delegateStyles THEN NO_CHANGE ELSE styles,
       directive)

TNode_elementStylingMap(s, index, classes, styles) ==
  TNode_elementStylingMapInternal(s, Null, index, classes, styles)

TNode_elementHostStylingMap(s, activeHost, classes, styles) ==
  TNode_elementStylingMapInternal(s, activeHost, 0, classes, styles)

(* The elements of the tests: with or without static classes and styles,    *)
(* with directives that have a class input, a style input, both or none.    *)
InputSets == SUBSET {"class", "style"}

StaticClasses == {<<>>, <<"apple", "orange">>}

StaticStyles == {<<>>, <<StyleEntry("width", "100px"), StyleEntry("height", "200px")>>}

ClassBindings == {NO_CHANGE, NullMap, ClassString("cucumber grape")}

StyleBindings ==
  {NO_CHANGE, NullMap,
   StyleMap(<<StyleEntry("width", "200px"), StyleEntry("height", "500px")>>)}

(* The directive whose host bindings function runs.                         *)
HostDirective == "DirWithHostStyling"

(* elementStart(0, 'div', [...]); elementStyling(); elementEnd(): the       *)
(* element with its static values; the setters have the value '' the        *)
(* directive classes give their fields.                                     *)
Delegation_elementStart(inputs, classNames, styleValues) ==
  /\ inputElement = <<>>
  /\ inputElement' =
      <<[tNode |-> [inputs |-> inputs],
        stylingContext |-> [initialClasses |-> classNames,
                            initialStyles |-> styleValues],
        inputValues |-> [p \in {"class", "style"} |-> ""],
        inputsSet |-> {},
        updated |-> [classes |-> NO_CHANGE, styles |-> NO_CHANGE,
                     directive |-> Null]]>>
  /\ mapCall' = <<>>
  /\ UNCHANGED outsideDelegation

(* The update block: elementStylingMap(0, classes, styles).                 *)
Delegation_elementStylingMap(classes, styles) ==
  /\ inputElement # <<>>
  /\ inputElement' =
       <<TNode_elementStylingMap([inputElement[1] EXCEPT !.inputsSet = {}], 0,
                                 classes, styles)>>
  /\ mapCall' = <<[host |-> FALSE, classes |-> classes, styles |-> styles]>>
  /\ UNCHANGED outsideDelegation

(* A host bindings function: elementHostStylingMap(classes, styles).        *)
Delegation_elementHostStylingMap(classes, styles) ==
  /\ inputElement # <<>>
  /\ inputElement' =
       <<TNode_elementHostStylingMap([inputElement[1] EXCEPT !.inputsSet = {}],
                                     HostDirective, classes, styles)>>
  /\ mapCall' = <<[host |-> TRUE, classes |-> classes, styles |-> styles]>>
  /\ UNCHANGED outsideDelegation

DelegationNext ==
  \/ \E inputs \in InputSets : \E classNames \in StaticClasses :
       \E styleValues \in StaticStyles :
         Delegation_elementStart(inputs, classNames, styleValues)
  \/ \E classes \in ClassBindings : \E styles \in StyleBindings :
       Delegation_elementStylingMap(classes, styles)
  \/ \E classes \in ClassBindings : \E styles \in StyleBindings :
       Delegation_elementHostStylingMap(classes, styles)

----------------------------------------------------------------------------
(* Properties of the styling instructions, checked under SpecStyling.       *)

(* First of t, a, b that is not null, else s.                               *)
Chain(t, a, b, s) ==
  IF t # Null THEN t ELSE IF a # Null THEN a ELSE IF b # Null THEN b ELSE s

(* A styling apply instruction has just run and no forceOverride write is   *)
(* in effect for width.                                                     *)
AfterApplyUnforced ==
  /\ pc \in {"u_host", "checked", "changed"}
  /\ bindings = StyleElement
  /\ forcedBy["width"] = None

(* C2 (as the specification states it): after an apply, the value of the    *)
(* directive registered last (Dir2) is applied whenever it is non-null,     *)
(* else the value of Dir1, the template's value only when both directives   *)
(* hold null, the static value when all hold null.                          *)
C2_LastDirectiveWins ==
  AfterApplyUnforced =>
    native.style["width"] =
      Chain(slots[Dir2]["width"], slots[Dir1]["width"], slots[Template]["width"],
            initialStyles["width"])

(* C2 (amended): after an apply, the template's value is applied whenever   *)
(* it is non-null; else the value of Dir1 (earlier in the directive list);  *)
(* else the value of Dir2; the static value when all three hold null.  The  *)
(* same order decides whether a class bound through [class] maps is set.    *)
C2_TemplateThenRegistrationOrder ==
  AfterApplyUnforced =>
    /\ native.style["width"] =
         Chain(slots[Template]["width"], slots[Dir1]["width"], slots[Dir2]["width"],
               initialStyles["width"])
    /\ "two" \in native.classes <=>
         Chain(slots[Template]["two"], slots[Dir1]["two"], slots[Dir2]["two"],
               IF "two" \in initialClasses THEN "true" ELSE "false") = "true"

C2_Witness ==
  /\ AfterApplyUnforced
  /\ pc = "u_host"
  /\ slots[Template]["width"] = Null
  /\ slots[Dir1]["width"] = "222px"
  /\ slots[Dir2]["width"] = "333px"
  /\ native.style["width"] = "222px"

C5_FalseDoesNotSuppress ==
  (pc = "checked" /\ bindings = StyleElement) =>
    ("two" \in native.classes <=>
       \E c \in Contributors : exprs[c].two = "true")

(* C5 (amended): the merge walks template, Dir1, Dir2 and applies the first *)
(* value that is not null: a null never hides a lower contributor's value,  *)
(* a false does (the class is absent); the static value is used only when   *)
(* all contributors hold null.                                              *)
C5_FirstNonNullWins ==
  (pc = "checked" /\ bindings = StyleElement) =>
    ("two" \in native.classes <=>
       Chain(exprs[Template].two, exprs[Dir1].two, exprs[Dir2].two,
             IF "two" \in initialClasses THEN "true" ELSE "false") = "true")

C5_Witness ==
  /\ pc = "checked"
  /\ bindings = StyleElement
  /\ exprs[Template].two = "false"
  /\ exprs[Dir1].two = "true"
  /\ "two" \notin native.classes

(* C6: a single-property write of a value made with forceOverride is shown  *)
(* by the element as soon as the instruction returns, and is still shown at *)
(* the end of the pass, whatever the other contributors hold.               *)
C6_ForceOverrideApplied ==
  /\ (pc = "u_tpl_class" /\ important = Template /\ Template \in bindings.styleProp
        /\ exprs[Template].width # Null) =>
       native.style["width"] = exprs[Template].width
  /\ (pc = "u_h_class" /\ important = activeHostContext
        /\ activeHostContext \in bindings.styleProp
        /\ exprs[activeHostContext].width # Null) =>
       native.style["width"] = exprs[activeHostContext].width
  /\ (pc = "u_tpl_apply" /\ important = Template /\ Template \in bindings.classProp
        /\ exprs[Template].xyz # Null) =>
       ("xyz" \in native.classes <=> exprs[Template].xyz = "true")
  /\ (pc = "u_h_apply" /\ important = activeHostContext
        /\ activeHostContext \in bindings.classProp
        /\ exprs[activeHostContext].xyz # Null) =>
       ("xyz" \in native.classes <=> exprs[activeHostContext].xyz = "true")
  /\ (pc = "checked" /\ important # None) =>
       /\ (important \in bindings.styleProp /\ exprs[important].width # Null) =>
            native.style["width"] = exprs[important].width
       /\ (important \in bindings.classProp /\ exprs[important].xyz # Null) =>
            ("xyz" \in native.classes <=> exprs[important].xyz = "true")

C6_Witness ==
  /\ pc = "u_h_class"
  /\ important = Dir2
  /\ activeHostContext = Dir2
  /\ slots[Template]["width"] = "999px"
  /\ slots[Dir1]["width"] = "222px"
  /\ exprs[Dir2].width = "333px"
  /\ native.style["width"] = "333px"

----------------------------------------------------------------------------
(* Properties of the render passes, checked under SpecViews.                *)

(* C1: a pass that starts with ctx.title equal to its value at the start of *)
(* the previous pass issues no renderer call, neither in the App view nor   *)
(* in its embedded view; an attribute written from outside keeps the        *)
(* outside value through every such pass.                                   *)
C1_UnchangedPassIssuesNoRendererCall ==
  /\ passKind = "unchanged" => rendererCalls = 0
  /\ \A el \in {"span", "b"} : manual[el] # None => dom[el] = manual[el]

C1_Witness ==
  /\ renderStep = "idle"
  /\ passKind = "unchanged"
  /\ lView = Null
  /\ manual["b"] = "Goodbye"
  /\ dom["b"] = "Goodbye"
  /\ dom["span"] = "Hello"
  /\ views[EmbeddedView].bindings[1] = "Hello"
  /\ rendererCalls = 0

----------------------------------------------------------------------------
(* Properties of directive instantiation, checked under SpecDI.             *)

(* The types of the directives constructed so far, in construction order.   *)
constructed == [k \in 1..Len(log) |-> log[k].type]

(* Number of directives on the elements of an App.                          *)
RECURSIVE directiveCount(_, _)
directiveCount(nodes, n) ==
  IF n = 0 THEN 0 ELSE Len(nodes[n].dirs) + directiveCount(nodes, n - 1)

Finished == diStep \in {"done", "error"}

(* Node n and the nodes above it, through host and declaration nodes.       *)
RECURSIVE InjectorChain(_, _)
InjectorChain(a, n) ==
  IF n = 0 THEN {} ELSE {n} \cup InjectorChain(a, getParentInjectorLocation(a, n))

(* C7: a directive is constructed after every directive it was given and    *)
(* exactly once per element; a view that is created completely has          *)
(* constructed every directive of every element, and the orders are those   *)
(* of the tests: [DirB, DirA] for <div dirA dirB>, [DirA, DirC, DirB] for   *)
(* DirB(DirA, DirC), [DirB, DirC, DirA, DirD, Comp] for the chain, and      *)
(* [DirB, DirA] again in each of the three embedded views of the loop.      *)
C7_DependenciesConstructedFirst ==
  /\ \A j, k \in 1..Len(log) :
       (j # k) => (log[j].node # log[k].node \/ log[j].type # log[k].type)
  /\ \A k \in 1..Len(log) : \A i \in 1..Len(log[k].args) :
       log[k].args[i].kind = "instance" =>
         \E j \in 1..(k - 1) :
           log[j].node = log[k].args[i].node /\ log[j].type = log[k].args[i].type
  /\ diStep = "done" => Len(log) = directiveCount(App(app).nodes, Len(App(app).nodes))
  /\ (diStep = "done" /\ app = "DependencyOrder") => constructed = <<"DirB", "DirA">>
  /\ (diStep = "done" /\ app = "OutOfOrder") => constructed = <<"DirA", "DirC", "DirB">>
  /\ (diStep = "done" /\ app = "Complex") =>
       constructed = <<"DirB", "DirC", "DirA", "DirD", "Comp">>
  /\ (diStep = "done" /\ app = "ForLoop") =>
       constructed = <<"DirB", "DirA", "DirB", "DirA", "DirB", "DirA">>

C7_Witness ==
  /\ diStep = "done"
  /\ app = "Complex"
  /\ constructed = <<"DirB", "DirC", "DirA", "DirD", "Comp">>
  /\ log[5].args = <<Instance(1, "DirD")>>

(* C8: directives that inject each other, or a directive that injects       *)
(* itself, end the creation of the view with 'Circular dep for'; the chain  *)
(* of factories in progress never holds a directive twice, and no factory   *)
(* is ever handed a directive whose constructor has not completed.          *)
C8_CircularDependencyFails ==
  /\ (Finished /\ app \in {"InjectEachOther", "InjectItself"}) =>
       /\ diStep = "error"
       /\ diError.kind = "Circular dep for"
       /\ log = <<>>
  /\ diError.kind = "Circular dep for" =>
       \A n \in 1..Len(nodeInjector) : \A i \in 1..Len(nodeInjector[n]) :
         nodeInjector[n][i] # "resolving"
  /\ \A j, k \in 1..Len(stack) :
       (j # k) => (stack[j].node # stack[k].node \/ stack[j].index # stack[k].index)
  /\ \A k \in 1..Len(stack) : \A i \in 1..Len(stack[k].args) :
       stack[k].args[i].kind = "instance" =>
         nodeInjector[stack[k].args[i].node]
                     [indexOf(App(app).nodes[stack[k].args[i].node].dirs,
                              stack[k].args[i].type)] = "instance"

C8_Witness ==
  /\ diStep = "error"
  /\ app = "InjectEachOther"
  /\ diError.kind = "Circular dep for"
  /\ diError.token = "DirA"
  /\ nodeInjector = <<<<"factory", "factory">>>>
  /\ log = <<>>

(* C9: a directiveInject without Optional for a token that is on neither    *)
(* the element, nor an ancestor, nor in the module injector ends the        *)
(* creation of the view with NOT_FOUND naming the token; OtherDir being     *)
(* registered with the App, or sitting on a sibling element, does not       *)
(* satisfy it.                                                              *)
C9_MissingDependencyFails ==
  /\ (Finished /\ app \in {"NotFound", "NotFoundInAncestors"}) =>
       /\ diStep = "error"
       /\ diError.kind = "NOT_FOUND"
       /\ diError.token = "OtherDir"
       /\ \A k \in 1..Len(log) : log[k].type # "Dir"
  /\ \A k \in 1..Len(log) : \A i \in 1..Len(log[k].args) :
       LET dep == App(app).factories[log[k].type][i]
       IN "Optional" \notin dep.flags => log[k].args[i].kind \in {"instance", "module", "value"}
  /\ (diError.kind = "NOT_FOUND" /\ diError.flags = {}) =>
       /\ \A m \in InjectorChain(App(app), nodeCursor) :
            indexOf(App(app).nodes[m].dirs, diError.token) = 0
       /\ diError.token \notin App(app).injector.provides

C9_Witness ==
  /\ diStep = "error"
  /\ app = "NotFoundInAncestors"
  /\ diError.kind = "NOT_FOUND"
  /\ diError.token = "OtherDir"
  /\ constructed = <<"OtherDir">>

(* C10: a directiveInject with Optional never fails for a missing token: in *)
(* the four Optional tests the view is created and the directive is         *)
(* constructed with null.                                                   *)
C10_OptionalYieldsNull ==
  /\ (Finished /\ app \in {"OptionalLimpMode", "OptionalModuleInjector", "OptionalSelf",
                           "OptionalDefinedElsewhere"}) =>
       /\ diStep = "done"
       /\ \E k \in 1..Len(log) :
            /\ log[k].type = (IF app = "OptionalSelf" THEN "DirC" ELSE "DirA")
            /\ Len(log[k].args) = 1
            /\ log[k].args[1].kind = "null"
  /\ diError.kind = "NOT_FOUND" => "Optional" \notin diError.flags

C10_Witness ==
  /\ diStep = "done"
  /\ app = "OptionalDefinedElsewhere"
  /\ constructed = <<"DirB", "DirA">>
  /\ log[2].args[1].kind = "null"

(* C11: directiveInject(T, Self) looks at the directives of the requesting  *)
(* node only.  In the two @Self tests DirB sits on the parent element and   *)
(* not on the element of DirA: the creation of the view ends with NOT_FOUND *)
(* [DirB] and DirA is never constructed, also when the Bloom filter of the  *)
(* element answers yes for DirB because DirC takes the same bit.  Whatever  *)
(* a Self lookup hands to a constructor is an instance of its own node or   *)
(* null.                                                                    *)
C11_SelfChecksOnlyCurrentNode ==
  /\ (Finished /\ app \in {"Self", "SelfFalsePositive"}) =>
       /\ diStep = "error"
       /\ diError.kind = "NOT_FOUND"
       /\ diError.token = "DirB"
       /\ constructed = <<"DirB">>
       /\ log[1].node = App(app).nodes[nodeCursor].parent
       /\ indexOf(App(app).nodes[nodeCursor].dirs, "DirB") = 0
  /\ (diStep = "error" /\ app = "SelfFalsePositive") =>
       bloomHasToken(bloomHash(NG_ELEMENT_ID(App(app), "DirB")), tData(App(app), nodeCursor))
  /\ \A k \in 1..Len(log) : \A i \in 1..Len(log[k].args) :
       "Self" \in App(app).factories[log[k].type][i].flags =>
         \/ log[k].args[i].kind = "null"
         \/ log[k].args[i].kind = "instance" /\ log[k].args[i].node = log[k].node

C11_Witness ==
  /\ diStep = "error"
  /\ app = "SelfFalsePositive"
  /\ diError = [kind |-> "NOT_FOUND", token |-> "DirB", flags |-> {"Self"}]
  /\ nodeCursor = 2
  /\ bloomHasToken(bloomHash(NG_ELEMENT_ID(App(app), "DirB")), tData(App(app), 2))
  /\ NG_ELEMENT_ID(App(app), "DirC") % BLOOM_SIZE = NG_ELEMENT_ID(App(app), "DirB") % BLOOM_SIZE
  /\ constructed = <<"DirB">>

(* C12: directiveInject(T, SkipSelf) never hands over the T of the          *)
(* requesting node.  With DirB both on the element of DirA and on the host  *)
(* element of the enclosing component, DirA is constructed with the DirB of *)
(* the host element.                                                        *)
C12_SkipSelfSkipsCurrentNode ==
  /\ (Finished /\ app = "SkipSelf") =>
       /\ diStep = "done"
       /\ \E k \in 1..Len(log) :
            /\ log[k].type = "DirA"
            /\ log[k].node = 2
            /\ log[k].args = <<Instance(1, "DirB")>>
  /\ \A k \in 1..Len(log) : \A i \in 1..Len(log[k].args) :
       "SkipSelf" \in App(app).factories[log[k].type][i].flags =>
         log[k].args[i].node # log[k].node

C12_Witness ==
  /\ diStep = "done"
  /\ app = "SkipSelf"
  /\ indexOf(App(app).nodes[2].dirs, "DirB") # 0
  /\ \E k \in 1..Len(log) : log[k].type = "DirA" /\ log[k].args = <<Instance(1, "DirB")>>
  /\ \E k \in 1..Len(log) : log[k].type = "DirB" /\ log[k].node = 2

(* The constructions of directive type t that the log holds.                *)
constructions(t) == {k \in 1..Len(log) : log[k].type = t}

(* C13: directiveInject(T, Host) from inside the view of component C finds  *)
(* C itself, a viewProvider of C, and a directive on an ancestor element    *)
(* that is reached through an embedded view without leaving the view of C.  *)
C13_HostFindsInsideComponent ==
  /\ (Finished /\ app = "HostViewProviders") =>
       /\ diStep = "done"
       /\ \E k \in constructions("DirString") :
            log[k].args = <<[kind |-> "value", node |-> 1, type |-> "String"]>>
  /\ (Finished /\ app = "HostComponent") =>
       /\ diStep = "done"
       /\ \E k \in constructions("DirComp") : log[k].args = <<Instance(1, "Comp")>>
  /\ (Finished /\ app = "HostAcrossEmbedded") =>
       /\ diStep = "done"
       /\ \E k \in constructions("DirA") :
            /\ log[k].args = <<Instance(1, "DirB")>>
            /\ viewOf(App(app), log[k].node) # viewOf(App(app), 1)
            /\ findComponentView(App(app), viewOf(App(app), log[k].node)) = viewOf(App(app), 1)
  /\ (Finished /\ app = "HostViewProvidersRegression") =>
       /\ diStep = "done"
       /\ Cardinality(constructions("GroupDirective")) = 1
       /\ \E k \in constructions("ControlNameDirective") :
            log[k].args = <<Instance(1, "GroupDirective")>>

C13_Witness ==
  /\ diStep = "done"
  /\ app = "HostViewProvidersRegression"
  /\ \E k \in constructions("ControlNameDirective") :
       /\ log[k].node = 3
       /\ log[k].args = <<Instance(1, "GroupDirective")>>

(* The tokens an @Host lookup from node n may be answered with by the node  *)
(* injectors: what sits on the nodes of the component view of n, and on its *)
(* host element the component and the viewProviders.                        *)
RECURSIVE HostVisible(_, _, _)
HostVisible(a, n, host) ==
  IF n = 0 THEN {}
  ELSE IF n = host
    THEN {a.nodes[n].dirs[i] : i \in {1} \cap DOMAIN a.nodes[n].dirs}
           \cup {viewProvidersOf(a, n)[i].provide : i \in DOMAIN viewProvidersOf(a, n)}
  ELSE {a.nodes[n].dirs[i] : i \in DOMAIN a.nodes[n].dirs}
         \cup {providersOf(a, n)[i].provide : i \in DOMAIN providersOf(a, n)}
         \cup HostVisible(a, getParentInjectorLocation(a, n), host)

(* C14: directiveInject(T, Host) from inside the view of component C is not *)
(* answered by the providers of C, by another directive on the host element *)
(* of C, or by anything above that element: the four Apps end with          *)
(* NOT_FOUND [T] although T is on the host element or above it, the inline  *)
(* view one while the nodes of the update pass are created.  Every argument  *)
(* that an @Host lookup did hand over is for a token visible inside the     *)
(* view of C.                                                               *)
C14_HostStopsAtComponentBoundary ==
  /\ (Finished /\ app \in {"HostProviders", "HostOtherDirective", "HostInlineView",
                           "HostAboveHost"}) =>
       /\ diStep = "error"
       /\ diError.kind = "NOT_FOUND"
       /\ diError.flags = {"Host"}
       /\ diError.token = App(app).factories[App(app).nodes[nodeCursor].dirs[1]][1].token
       /\ constructions(App(app).nodes[nodeCursor].dirs[1]) = {}
       /\ \E m \in InjectorChain(App(app), nodeCursor) :
            diError.token \in {injectorTokens(App(app), m)[i] :
                                 i \in DOMAIN injectorTokens(App(app), m)}
  /\ (Finished /\ app = "HostInlineView") => nodeCursor >= App(app).updatePass
  /\ \A k \in 1..Len(log) : \A i \in 1..Len(log[k].args) :
       LET dep == App(app).factories[log[k].type][i]
           host == hostNodeOf(App(app), findComponentView(App(app), viewOf(App(app), log[k].node)))
       IN ("Host" \in dep.flags /\ log[k].args[i].kind # "null") =>
            dep.token \in HostVisible(App(app), log[k].node, host)

C14_Witness ==
  /\ diStep = "error"
  /\ app = "HostInlineView"
  /\ nodeCursor = 3
  /\ diError = [kind |-> "NOT_FOUND", token |-> "DirB", flags |-> {"Host"}]
  /\ \E k \in constructions("DirB") : log[k].node = 1
  /\ constructions("DirA") = {}

(* The nodes of the chain of node n that carry directive token.             *)
carriers(a, n, token) ==
  {m \in InjectorChain(a, n) : indexOf(a.nodes[m].dirs, token) # 0}

(* C16: an unflagged directiveInject(T) from node n is answered by the T of *)
(* n itself when there is one, even if an ancestor or the host element of   *)
(* the component has a T too; else by the nearest node above n that has T;  *)
(* and by the module injector exactly when no node of the chain has T.      *)
C16_NearestNodeThenModule ==
  /\ (Finished /\ app = "PeerDep") =>
       /\ diStep = "done"
       /\ constructed = <<"Comp", "DirB", "DirB", "DirA">>
       /\ log[4].node = 2
       /\ log[4].args = <<Instance(2, "DirB")>>
  /\ (Finished /\ app = "ModuleFallback") =>
       /\ diStep = "done"
       /\ \E k \in constructions("DirA") :
            log[k].args = <<[kind |-> "module", node |-> 0, type |-> "DirB"]>>
  /\ (Finished /\ app = "ComponentHosts") =>
       /\ diStep = "done"
       /\ \E k \in constructions("DirA") : log[k].args = <<Instance(1, "DirB")>>
  /\ \A k \in 1..Len(log) : \A i \in 1..Len(log[k].args) :
       LET dep == App(app).factories[log[k].type][i]
           arg == log[k].args[i]
           at == carriers(App(app), log[k].node, dep.token)
       IN dep.flags = {} =>
            /\ arg.kind \in {"instance", "module"}
            /\ arg.kind = "instance" =>
                 /\ arg.type = dep.token
                 /\ arg.node \in at
                 /\ \A m \in at : m \in InjectorChain(App(app), arg.node)
            /\ arg.kind = "module" <=> at = {}
            /\ arg.kind = "module" => dep.token \in App(app).injector.provides

C16_Witness ==
  /\ diStep = "done"
  /\ app = "PeerDep"
  /\ carriers(App(app), 2, "DirB") = {1, 2}
  /\ log[4].type = "DirA"
  /\ log[4].args = <<Instance(2, "DirB")>>

(* Node n and the nodes above it in the tree the views are inserted in.     *)
RECURSIVE InsertionChain(_, _)
InsertionChain(a, n) ==
  IF n = 0 THEN {}
  ELSE {n} \cup InsertionChain(a,
         IF a.nodes[n].parent # 0 THEN a.nodes[n].parent
         ELSE IF viewOf(a, n) = 0 THEN 0
         ELSE IF a.views[viewOf(a, n)].type = "embedded" THEN a.views[viewOf(a, n)].insertedAt
         ELSE a.views[viewOf(a, n)].hostNode)

(* C17: a directive in the embedded view of an ng-template resolves along   *)
(* the tree the template is declared in.  With the template declared under  *)
(* the div whose DirB is "declaration" and its view inserted under the div  *)
(* whose DirB is "insertion", DirA is constructed with the declaration one; *)
(* no argument is an instance of a node that only the insertion tree has    *)
(* above the requester.                                                     *)
C17_DeclarationTreeNotInsertionTree ==
  /\ (Finished /\ app = "DeclarationTree") =>
       /\ diStep = "done"
       /\ \E k \in constructions("DirA") :
            /\ log[k].node = 5
            /\ log[k].args = <<Instance(1, "DirB")>>
  /\ \A k \in 1..Len(log) : \A i \in 1..Len(log[k].args) :
       (log[k].args[i].kind = "instance"
          /\ App(app).factories[log[k].type][i].flags \cap {"Host", "SkipSelf"} = {}) =>
         ~(/\ log[k].args[i].node \in InsertionChain(App(app), log[k].node)
           /\ log[k].args[i].node \notin InjectorChain(App(app), log[k].node))

C17_Witness ==
  /\ diStep = "done"
  /\ app = "DeclarationTree"
  /\ 3 \in InsertionChain(App(app), 5)
  /\ 3 \notin InjectorChain(App(app), 5)
  /\ \E k \in constructions("DirB") : log[k].node = 3
  /\ \E k \in constructions("DirA") : log[k].args = <<Instance(1, "DirB")>>

----------------------------------------------------------------------------
(* Properties of the Bloom filter, checked under SpecBloom.                 *)

(* The ids added so far that take bit b of word w (w counted from 0).       *)
addedAt(w, b) == {k \in bloomAdded : k % 32 = b /\ (k % 256) \div 32 = w}

(* C15: the filter has no false negatives.  After any sequence of bloomAdd  *)
(* calls bloomHasToken is true for every id added; bit b of word w is set   *)
(* exactly when an added id k has k mod 32 = b and (k mod 256) div 32 = w,  *)
(* so that bloomAdd sets that one bit and no other, and bloomHasToken is    *)
(* false for an id whose bit no added id takes.  Adding Dir0 .. Dir231      *)
(* gives the words 128, 64, 32, 16, 8, 4, 2, 1 from last to first.          *)
C15_BloomHasNoFalseNegatives ==
  /\ \A k \in bloomAdded : bloomHasToken(bloomHash(k), mockTView)
  /\ \A w \in 0..7 : \A b \in 0..31 :
       bloomHasToken(32 * w + b, mockTView) <=> addedAt(w, b) # {}
  /\ \A k \in BloomIds :
       addedAt((k % 256) \div 32, k % 32) = {} => ~bloomHasToken(bloomHash(k), mockTView)
  /\ \A w \in 0..7 :
       /\ addedAt(w, 31) # {} <=> mockTView[w + 1] < 0
       /\ (\A b \in 0..31 : b # w => addedAt(w, b) = {}) =>
            mockTView[w + 1] = IF addedAt(w, w) = {} THEN 0 ELSE 2 ^ w
  /\ bloomAdded = {0, 33, 66, 99, 132, 165, 198, 231} =>
       bloomState = <<128, 64, 32, 16, 8, 4, 2, 1>>

C15_Witness ==
  /\ bloomAdded = {0, 33, 66, 99, 132, 165, 198, 231}
  /\ bloomState = <<128, 64, 32, 16, 8, 4, 2, 1>>
  /\ ~bloomHasToken(bloomHash(1), mockTView)
  /\ bloomHasToken(bloomHash(33), mockTView)

----------------------------------------------------------------------------
(* Properties of the template tests, checked under SpecTemplates.           *)

(* C18: the template data of a template function and the node data in it   *)
(* are created once and cached on the function.  Whatever the test has      *)
(* read once (Template.ngPrivateData, the TNode of the container in its     *)
(* data, the TNode of the element in the data of the block's TView) is the  *)
(* same object after every later render, also when the embedded view was    *)
(* destroyed and created again; every LView is built on the cached TView;   *)
(* and no test allocates more TViews and TNodes than its templates have     *)
(* (the root view and the host element included).                           *)
C18_TemplateDataReused ==
  LET now == templateData(tObjects, ngPrivateData)
  IN /\ \A f \in DOMAIN oldData : oldData[f] # NoObject => now[f] = oldData[f]
     /\ hostView # Null => lViews[hostView].tView = ngPrivateData
     /\ lViews[EmbeddedBlock].created =>
          /\ now.container # NoObject
          /\ lViews[EmbeddedBlock].tView = tObjects[now.container].tViews[1]
     /\ running = "TemplateData" => ngDevMode.tView <= 3 /\ ngDevMode.tNode <= 3
     /\ running = "CreationText" => ngDevMode.tView <= 2 /\ ngDevMode.tNode <= 2
     /\ running = "StructuredComp" => ngDevMode.tView <= 2 /\ ngDevMode.tNode <= 3

(* The test has read all three objects after an earlier render, the         *)
(* embedded view of that render was destroyed, and a later render has       *)
(* created the embedded view and its div again.                             *)
C18_Witness ==
  /\ running = "TemplateData"
  /\ oldData.template # NoObject
  /\ oldData.container # NoObject
  /\ oldData.element # NoObject
  /\ lViews[EmbeddedBlock].created
  /\ EmbeddedBlock \notin viewsLeft
  /\ lViews[EmbeddedBlock].slots[HEADER_OFFSET].name = "div"
  /\ "CreationMode" \notin lViews[running].flags

(* The node a statement of a template function declares, by the name its    *)
(* native node goes by.                                                     *)
declaredName(i) ==
  CASE i.op = "container" -> "container"
    [] i.op = "text" -> "#text"
    [] OTHER -> i.arg

(* The statements of the running template that declare a node of a view.    *)
declarations(view) ==
  {j \in 1..Len(templateFn(running)) :
     /\ templateFn(running)[j].op \in {"container", "element", "text"}
     /\ (templateFn(running)[j].level = 0) = (view = running)}

(* getLContext(target): the LView the native node is patched with and the   *)
(* index of the slot of that LView that holds the node.                     *)
getLContext(target) ==
  LET v == patchData[target]
  IN [lView |-> v,
      nodeIndex |-> CHOOSE k \in DOMAIN lViews[v].slots :
                      lViews[v].slots[k].name = target]

(* C19: slot stability.  In every instance of every view, at every point   *)
(* of every pass, the node that the template declares with index n is in    *)
(* slot HEADER_OFFSET + n of the state array of that view (or not created   *)
(* yet, while the creation block of the instance runs), the reserved slots  *)
(* hold no node, the node data of the node records the same slot, and       *)
(* getLContext finds the nodes of one view in one and the same LView.       *)
C19_SlotStability ==
  /\ \A v \in TemplateViewIds : lViews[v].created =>
       /\ \A k \in 0..(HEADER_OFFSET - 1) : lViews[v].slots[k] = headerSlot
       /\ \A j \in declarations(v) :
            LET i == templateFn(running)[j]
                slot == lViews[v].slots[HEADER_OFFSET + i.index]
                tNode == tObjects[lViews[v].tView].data[HEADER_OFFSET + i.index]
            IN /\ slot.name \in {Null, declaredName(i)}
               /\ v \in viewsLeft => slot.name = declaredName(i)
               /\ slot.name # Null =>
                    /\ tNode # NoObject
                    /\ tObjects[tNode].index = HEADER_OFFSET + i.index
  /\ \A el \in NativeNames : patchData[el] # Null =>
       \E j \in declarations(patchData[el]) :
          /\ declaredName(templateFn(running)[j]) = el
          /\ getLContext(el).nodeIndex = HEADER_OFFSET + templateFn(running)[j].index
  /\ (running = "StructuredComp" /\ patchData["section"] # Null
        /\ patchData["div"] # Null) =>
       getLContext("div").lView = getLContext("section").lView

(* StructuredComp has been rendered twice: the section is found at          *)
(* HEADER_OFFSET and the div at HEADER_OFFSET + 1 of the same LView.        *)
C19_Witness ==
  /\ running = "StructuredComp"
  /\ templateStep = 0
  /\ hostView # Null
  /\ "FirstLViewPass" \notin lViews[hostView].flags
  /\ getLContext("section").nodeIndex = HEADER_OFFSET
  /\ getLContext("div").nodeIndex = HEADER_OFFSET + 1
  /\ getLContext("div").lView = getLContext("section").lView

(* The text the text node of the creation-time value test shows, None       *)
(* before the node exists.                                                  *)
renderedText ==
  IF hostView # Null /\ lViews[hostView].slots[HEADER_OFFSET].name = "#text"
    THEN lViews[hostView].slots[HEADER_OFFSET].text
    ELSE None

(* A view has the CreationMode flag exactly until leaveView has run on it,  *)
(* and a statement of a creation block only runs in such a view.            *)
CreationModeUntilLeft ==
  /\ \A v \in TemplateViewIds : lViews[v].created =>
       ("CreationMode" \in lViews[v].flags <=> v \notin viewsLeft)
  /\ (templateStep \in 1..Len(templateFn(running)) /\ CurrentInstr.block = "Create") =>
       globals.lView \notin viewsLeft

(* The value that the creation block wrote stays: the text node shows the   *)
(* context of the first render, and the renderer set a text once.           *)
CreationValueKept ==
  running = "CreationText" =>
    /\ renderedText \in {None, "", firstValue}
    /\ templateStep = 0 /\ hostView # Null => renderedText = firstValue
    /\ ngDevMode.rendererSetText <= 1

(* No step gives the CreationMode flag back to a view that lost it.         *)
CreationModeNotSetAgain ==
  \A v \in TemplateViewIds :
    (lViews[v].created /\ lViews'[v].created /\ v \in viewsLeft /\ v \in viewsLeft')
      => "CreationMode" \notin lViews'[v].flags

(* C20: a view is in creation mode from its instantiation until the first  *)
(* leaveView that runs while it is the current view; nothing sets the flag  *)
(* again, so the creation block of a view runs in its first pass only and   *)
(* a value written only there keeps its first value when the template is    *)
(* rendered again with other data.                                          *)
C20_CreationModeStateMachine ==
  /\ [](CreationModeUntilLeft /\ CreationValueKept)
  /\ [][CreationModeNotSetAgain]_vars

(* renderToHtml(Template, 'once', 1, 1) and then renderToHtml(Template,     *)
(* 'twice', 1, 1) have returned: the text is 'once', with two TNodes, two   *)
(* TViews and one rendererSetText counted.                                  *)
C20_Witness ==
  /\ running = "CreationText"
  /\ templateStep = 0
  /\ firstValue = "once"
  /\ ctxValue = "twice"
  /\ renderedText = "once"
  /\ ngDevMode = [tView |-> 2, tNode |-> 2, rendererSetText |-> 1]
  /\ "CreationMode" \notin lViews[hostView].flags

----------------------------------------------------------------------------
(* Properties of the view containers, checked under SpecContainers.         *)

(* The views of a list whose items are in another list.                     *)
keptViews(attached, list) ==
  {p \in 1..Len(attached) : \E i \in DOMAIN list : list[i] = attached[p].item}

(* C21: the container of an ngFor after an update pass.  It holds one view *)
(* per item, in the order of the items, and the host shows their nodes in   *)
(* that order.  A view that was attached before the pass and whose item is  *)
(* still there is the same view with the same node and was not destroyed;   *)
(* the pass created exactly one view per item that had none; and when the   *)
(* items only grew at the end, the views and nodes that were there are      *)
(* still the first ones, the new ones following them.                       *)
C21_NgForAppendsWithoutRebuilding ==
  (vcTest = "NgFor" /\ ~pendingUpdate) =>
    /\ [p \in 1..Len(lContainer) |-> lContainer[p].item] = cmptItems
    /\ hostChildren = [p \in 1..Len(lContainer) |-> lContainer[p].node]
    /\ \A p \in keptViews(prevContainer, cmptItems) :
         /\ \E q \in 1..Len(lContainer) : lContainer[q] = prevContainer[p]
         /\ prevContainer[p].id \notin destroyedViews
    /\ Cardinality({q \in 1..Len(lContainer) :
                      \A p \in 1..Len(prevContainer) :
                         prevContainer[p].id # lContainer[q].id})
         = missingViews(prevContainer, cmptItems)
    /\ (/\ Len(prevContainer) <= Len(cmptItems)
        /\ \A p \in 1..Len(prevContainer) : prevContainer[p].item = cmptItems[p])
         => /\ SubSeq(lContainer, 1, Len(prevContainer)) = prevContainer
            /\ SubSeq(hostChildren, 1, Len(prevContainer)) =
                 [p \in 1..Len(prevContainer) |-> prevContainer[p].node]

(* items was [1, 2] with two views, became [1, 2, 3], and the update pass    *)
(* has run: the two views are the first two of three, nothing destroyed.    *)
C21_Witness ==
  /\ vcTest = "NgFor"
  /\ ~pendingUpdate
  /\ cmptItems = <<1, 2, 3>>
  /\ Len(prevContainer) = 2
  /\ prevContainer[1].item = 1
  /\ prevContainer[2].item = 2
  /\ Len(lContainer) = 3
  /\ lContainer[1] = prevContainer[1]
  /\ lContainer[2] = prevContainer[2]
  /\ lContainer[3].id \notin {prevContainer[1].id, prevContainer[2].id}
  /\ [p \in 1..3 |-> hostChildren[p].text] =
       <<"<div>1</div>", "<div>2</div>", "<div>3</div>">>
  /\ destroyedViews = {}

(* fixture.html: the content of the nodes at the anchor, in document order. *)
fixtureHtml == [p \in 1..Len(hostChildren) |-> hostChildren[p].text]

(* C22: after an update pass the host shows, at the anchor of the          *)
(* container, the content of the attached views in their order and nothing  *)
(* else: the node of each view, with the content of its template; k views   *)
(* inserted since the last clear give k copies and a clear gives none; the  *)
(* view of the if block is there exactly while its condition holds.         *)
C22_HostShowsAttachedViews ==
  (vcTest # None /\ ~pendingUpdate) =>
    /\ hostChildren = [p \in 1..Len(lContainer) |-> lContainer[p].node]
    /\ \A p \in 1..Len(lContainer) :
         /\ hostChildren[p].text = contentOf(vcTest, lContainer[p].item)
         /\ lContainer[p].id \notin destroyedViews
    /\ vcTest \in {"DelayedView", "ViewContainerRef"} =>
         /\ Len(fixtureHtml) = insertCount
         /\ \A p \in 1..Len(fixtureHtml) :
              fixtureHtml[p] = IF vcTest = "DelayedView" THEN "content" ELSE "Content"
    /\ vcTest = "IfBlock" =>
         fixtureHtml = IF cmptValue THEN <<"<div>content</div>">> ELSE <<>>

(* createAndInsert() twice after an earlier clear(), then the update pass:  *)
(* the host shows 'contentcontent'.                                         *)
C22_Witness ==
  /\ vcTest = "DelayedView"
  /\ ~pendingUpdate
  /\ insertCount = 2
  /\ destroyedViews # {}
  /\ fixtureHtml = <<"content", "content">>

----------------------------------------------------------------------------
(* Properties of the template compiler, checked under SpecCompiler.         *)

emitted(kind) == {i \in DOMAIN resultSource : resultSource[i].kind = kind}

(* The nested templates, and the listeners, of the components compiled.     *)
nestedTemplates ==
  { <<c, n>> \in (DOMAIN srcFiles) \X (1..12) :
      n \in DOMAIN srcFiles[c].template /\ srcFiles[c].template[n].structural }

listeners ==
  { <<c, n>> \in (DOMAIN srcFiles) \X (1..12) :
      n \in DOMAIN srcFiles[c].template /\ srcFiles[c].template[n].event # "" }

(* C23: within one compilation no two emitted template functions and no    *)
(* two emitted listener functions have the same name, however alike the     *)
(* branches they come from are; and when the compilation is done there is   *)
(* one template function per component and per nested template, and one    *)
(* listener function per event binding.                                     *)
C23_UniqueFunctionNames ==
  /\ \A i, j \in DOMAIN resultSource :
       i # j /\ resultSource[i].kind = resultSource[j].kind
         => resultSource[i].name # resultSource[j].name
  /\ CompilationDone =>
       /\ Cardinality(emitted("template"))
            = Len(srcFiles) + Cardinality(nestedTemplates)
       /\ Cardinality(emitted("listener")) = Cardinality(listeners)

(* A compilation is done whose template has two sibling elements with the   *)
(* same markup, both nested templates and both with a click listener.       *)
C23_Witness ==
  /\ CompilationDone
  /\ \E i, j \in DOMAIN srcFiles[1].template :
       /\ i # j
       /\ srcFiles[1].template[i] = srcFiles[1].template[j]
       /\ srcFiles[1].template[i].structural
       /\ srcFiles[1].template[i].event = "click"
       /\ srcFiles[1].template[i].parent > 0
  /\ Cardinality(emitted("template")) >= 3
  /\ Cardinality(emitted("listener")) >= 2

----------------------------------------------------------------------------
(* Properties of context walking, checked under SpecContext.                *)

RECURSIVE declarationChain(_)
(* A view and the views its template is declared in, directly or not.       *)
declarationChain(view) ==
  IF view = Null THEN {}
  ELSE {view} \cup declarationChain(DECLARATION_VIEW(view))

(* The view of the chain whose template is nested at the given depth.       *)
viewAtDepth(view, depth) ==
  CHOOSE u \in declarationChain(view) : declarationDepth(u) = depth

RECURSIVE levelsWalked(_)
(* The levels walked by the first n reads of the block.                     *)
levelsWalked(n) ==
  IF n = 0 THEN 0 ELSE contextLog[n].level + levelsWalked(n - 1)

(* C24: in a block of a view nested at depth d, the nextContext calls made  *)
(* up to the read of a variable declared at depth d' walk d - d' levels in  *)
(* total, and the read gets the context of the view at depth d' of the      *)
(* declaration chain; each call starts from the view the previous one       *)
(* reached, and a block starts from its own view, entered or restored.      *)
C24_ContextTraversal ==
  savedView # Null =>
    /\ \A i \in DOMAIN contextLog :
         /\ contextLog[i].declared <= declarationDepth(savedView)
         /\ levelsWalked(i)
              = declarationDepth(savedView) - contextLog[i].declared
         /\ contextLog[i].value
              = CONTEXT(viewAtDepth(savedView, contextLog[i].declared))
    /\ walkState.contextLView
         = viewAtDepth(savedView, declarationDepth(savedView)
                                    - levelsWalked(Len(contextLog)))

(* A listener of an innermost view, called while another view is being      *)
(* processed, has read the middle variable with nextContext() and then the  *)
(* component with nextContext(2).                                           *)
C24_Witness ==
  /\ savedView = "div100"
  /\ walkState.lView \notin {Null, savedView}
  /\ updateBlock = <<>>
  /\ Len(contextLog) = 2
  /\ contextLog[1].level = 1 /\ contextLog[1].declared = 2
  /\ contextLog[2].level = 2 /\ contextLog[2].declared = 0
  /\ contextLog[2].value = CONTEXT("MyComponent")

----------------------------------------------------------------------------
(* Properties of the styling compiler, checked under SpecStylingCompiler.   *)

ElementCompiled == elementAttrs # <<>> /\ attrCursor = 0

(* Where a binding is written in the element.                               *)
declaredAt(kind, target, name) ==
  CHOOSE i \in DOMAIN elementAttrs :
    elementAttrs[i] = Binding(kind, target, name)

written(kind, target) ==
  {i \in DOMAIN elementAttrs :
     elementAttrs[i].kind = kind /\ elementAttrs[i].target = target}

emittedAt(block, ops) == {i \in DOMAIN block : block[i].op \in ops}

targetOf(instr) == IF instr.op = "elementStyleProp" THEN "style" ELSE "class"

stage(instr) ==
  CASE instr.op = "elementStylingMap" -> 1
    [] instr.op = "elementStyleProp" -> 2
    [] instr.op = "elementClassProp" -> 3
    [] instr.op = "elementStylingApply" -> 4
    [] OTHER -> 5

stageAsWritten(instr) ==
  CASE instr.op = "elementStylingMap" -> 1
    [] instr.op \in {"elementStyleProp", "elementClassProp"} -> 2
    [] instr.op = "elementStylingApply" -> 3
    [] OTHER -> 4

(* Every binding written has its instruction, and nothing else is emitted.  *)
EveryBindingEmitted ==
  /\ Cardinality(emittedAt(updateInstrs, {"elementStylingMap"}))
       = IF written("map", "style") \cup written("map", "class") = {}
           THEN 0 ELSE 1
  /\ Cardinality(emittedAt(updateInstrs, {"elementStyleProp"}))
       = Cardinality(written("prop", "style"))
  /\ Cardinality(emittedAt(updateInstrs, {"elementClassProp"}))
       = Cardinality(written("prop", "class"))
  /\ Cardinality(emittedAt(updateInstrs, {"elementAttribute"}))
       = Cardinality(written("attr", "style") \cup written("attr", "class"))
  /\ Cardinality(emittedAt(updateInstrs, {"elementStylingApply"}))
       = IF \E i \in DOMAIN elementAttrs : elementAttrs[i].kind \in {"map", "prop"}
           THEN 1 ELSE 0
  /\ \A i \in emittedAt(updateInstrs, {"elementStyleProp", "elementClassProp"}) :
       Binding("prop", targetOf(updateInstrs[i]), updateInstrs[i].arg)
         \in {elementAttrs[k] : k \in DOMAIN elementAttrs}

(* The static values are in the creation block, before elementStyling.      *)
StaticValuesFirst ==
  /\ Cardinality(emittedAt(creationInstrs,
                           {"elementStart:style", "elementStart:class"}))
       = Cardinality(written("static", "style") \cup written("static", "class"))
  /\ \A i \in emittedAt(creationInstrs, {"elementStyling"}) :
       \A j \in emittedAt(creationInstrs,
                          {"elementStart:style", "elementStart:class"}) : j < i
  /\ \A i \in DOMAIN updateInstrs :
       ~(\E k \in written("static", "style") \cup written("static", "class") :
           elementAttrs[k].name = updateInstrs[i].arg)

(* C25: in the update block of an element the map instruction comes first,  *)
(* then the style property instructions in the order their bindings are     *)
(* written, then the class property instructions in the order theirs are    *)
(* written, then the apply, then the attribute instructions, whatever the   *)
(* order of the bindings in the template; the static values are in the      *)
(* creation block, before the elementStyling allocation.                    *)
C25_StylingInstructionOrder ==
  ElementCompiled =>
    /\ EveryBindingEmitted
    /\ StaticValuesFirst
    /\ \A i, j \in DOMAIN updateInstrs :
         i < j => stage(updateInstrs[i]) <= stage(updateInstrs[j])
    /\ \A i, j \in emittedAt(updateInstrs, {"elementStyleProp"}) :
         i < j => declaredAt("prop", "style", updateInstrs[i].arg)
                    < declaredAt("prop", "style", updateInstrs[j].arg)
    /\ \A i, j \in emittedAt(updateInstrs, {"elementClassProp"}) :
         i < j => declaredAt("prop", "class", updateInstrs[i].arg)
                    < declaredAt("prop", "class", updateInstrs[j].arg)

(* The statement with one declared order for all single-property            *)
(* instructions, style and class alike.                                     *)
C25_PropsInWrittenOrder ==
  ElementCompiled =>
    /\ \A i, j \in DOMAIN updateInstrs :
         i < j => stageAsWritten(updateInstrs[i]) <= stageAsWritten(updateInstrs[j])
    /\ \A i, j \in emittedAt(updateInstrs, {"elementStyleProp", "elementClassProp"}) :
         i < j => declaredAt("prop", targetOf(updateInstrs[i]), updateInstrs[i].arg)
                    < declaredAt("prop", targetOf(updateInstrs[j]), updateInstrs[j].arg)

(* An element is compiled in which an attribute binding is written first,   *)
(* then a class property, then a style property.                            *)
C25_Witness ==
  /\ ElementCompiled
  /\ \E i, j, k \in DOMAIN elementAttrs :
       /\ i < j /\ j < k
       /\ elementAttrs[i].kind = "attr"
       /\ elementAttrs[j].kind = "prop" /\ elementAttrs[j].target = "class"
       /\ elementAttrs[k].kind = "prop" /\ elementAttrs[k].target = "style"
  /\ Len(updateInstrs) = 4

----------------------------------------------------------------------------
(* Properties of the sanitization tests, checked under SpecSanitization.    *)

(* What the host may show for a bound value.                                *)
sanitized(value) ==
  IF value.trusted THEN value.value ELSE interceptor(value)

BoundValueShown ==
  sanTest # Null /\ sanSlot = sanValue => hostAttrs = sanitized(sanValue)

OnlySanitizedWritten ==
  hostAttrs' # hostAttrs => hostAttrs' = sanitized(sanValue')

(* C26: whatever is bound through the sanitizing property binding, in the   *)
(* template or in a host binding, the host attribute is only ever written   *)
(* with the sanitizer's replacement of the value, or with the value itself  *)
(* when it was marked trusted; after an update pass it shows exactly that.  *)
C26_SanitizedValueReachesHost ==
  []BoundValueShown /\ [][OnlySanitizedWritten]_vars

(* The host binding test has written a trusted value unchanged.             *)
C26_Witness ==
  /\ sanTest = "UnsafeUrlHostBindingDir"
  /\ sanValue = bypassSecurityTrustUrl("http://foo")
  /\ sanSlot = sanValue
  /\ hostAttrs = "http://foo"

----------------------------------------------------------------------------
(* Properties of the type-checking context, checked under SpecTypeCheck.    *)

(* C27: transform(sf) returns sf itself, the same object with the same      *)
(* text, when no operation was recorded for sf, whatever is pending for     *)
(* other files; it returns a newly parsed file only when an operation is    *)
(* pending for sf.                                                          *)
C27_TransformIdentityWithoutOps ==
  \A i \in DOMAIN transformResult :
    /\ transformResult[i].ops = <<>> =>
         /\ transformResult[i].result = transformResult[i].sf
         /\ transformResult[i].result.original
    /\ transformResult[i].ops # <<>> =>
         /\ ~transformResult[i].result.original
         /\ transformResult[i].result # transformResult[i].sf
         /\ transformResult[i].result.fileName = transformResult[i].sf.fileName

(* c.ts was transformed and returned as it is while operations were pending *)
(* for both other files.                                                    *)
C27_Witness ==
  /\ transformResult # <<>>
  /\ transformResult[1].sf.fileName = "c.ts"
  /\ transformResult[1].others = {"a.ts", "b.ts"}
  /\ transformResult[1].result = SourceFile("c.ts")

(* The positions of the code an operation generated, in a text.             *)
generatedAt(text, op) == {p \in DOMAIN text : text[p] = execute(op)[1]}

(* The index in the original file of the nearest original character before  *)
(* and after a position of the transformed text; -1 when there is none.     *)
originalBefore(text, p) ==
  IF \E q \in 1..(p - 1) : text[q].at >= 0
    THEN text[CHOOSE q \in 1..(p - 1) :
                /\ text[q].at >= 0
                /\ \A r \in (q + 1)..(p - 1) : text[r].at < 0].at
  ELSE -1

originalAfter(text, p) ==
  IF \E q \in (p + 1)..Len(text) : text[q].at >= 0
    THEN text[CHOOSE q \in (p + 1)..Len(text) :
                /\ text[q].at >= 0
                /\ \A r \in (p + 1)..(q - 1) : text[r].at < 0].at
  ELSE -1

(* The type-check block follows the closing brace of its class directly     *)
(* and does not land inside a declaration.                                  *)
TcbAfterClassEnd(call) ==
  \A i \in DOMAIN call.ops :
    call.ops[i].kind = "TcbOp" =>
      /\ generatedAt(call.result.text, call.ops[i]) # {}
      /\ \A p \in generatedAt(call.result.text, call.ops[i]) :
           /\ originalBefore(call.result.text, p) = call.ops[i].node.end - 1
           /\ ~(\E c \in Classes :
                  /\ c.file = call.sf.fileName
                  /\ c.start < originalAfter(call.result.text, p)
                  /\ originalAfter(call.result.text, p) < c.end)

(* The type constructor is followed directly by the closing brace of its    *)
(* class, so it is inside the body.                                         *)
TypeCtorBeforeClassEnd(call) ==
  \A i \in DOMAIN call.ops :
    call.ops[i].kind = "TypeCtorOp" =>
      /\ generatedAt(call.result.text, call.ops[i]) # {}
      /\ \A p \in generatedAt(call.result.text, call.ops[i]) :
           /\ originalAfter(call.result.text, p) = call.ops[i].node.end - 1
           /\ originalBefore(call.result.text, p) >= call.ops[i].node.start

(* C28, as stated: in the transformed text every type-check block is        *)
(* immediately after the end of its component's class and inside no other   *)
(* declaration, and every type constructor is immediately before the end    *)
(* of its directive's class.                                                *)
C28_GeneratedCodeAtClassEnd ==
  \A i \in DOMAIN transformResult :
    /\ TcbAfterClassEnd(transformResult[i])
    /\ TypeCtorBeforeClassEnd(transformResult[i])

(* What holds of the type constructors alone.                               *)
TypeCtorsBeforeClassEnd ==
  \A i \in DOMAIN transformResult : TypeCtorBeforeClassEnd(transformResult[i])

(* The type-check block of C, in b.ts, is in the middle of class D: the     *)
(* first character of D precedes it and the rest of D follows it.           *)
C28_Witness ==
  /\ transformResult # <<>>
  /\ transformResult[1].sf.fileName = "b.ts"
  /\ \E i \in DOMAIN transformResult[1].ops :
       /\ transformResult[1].ops[i] =
            TcbOp(ClassDecl("C", "b.ts", 0, 0, 3),
                  tcbMeta(ClassDecl("C", "b.ts", 0, 0, 3)))
       /\ \E p \in generatedAt(transformResult[1].result.text,
                               transformResult[1].ops[i]) :
            /\ originalBefore(transformResult[1].result.text, p) = 3
            /\ originalAfter(transformResult[1].result.text, p) = 4

----------------------------------------------------------------------------
(* Properties of directive matching under ngNonBindable, checked under      *)
(* SpecBindings.                                                            *)

SuppressedExactlyInside ==
  \A i \in DOMAIN createdElements :
    /\ createdElements[i].instantiated
         <=> (createdElements[i].directive /\ ~createdElements[i].inside)
    /\ createdElements[i].localNames
         <=> (createdElements[i].localRef /\ ~createdElements[i].inside)

EnabledAfterReset ==
  /\ componentState.bindingsEnabled # Null
  /\ createdElements = <<>>
  => componentState.bindingsEnabled = "true"

(* C29, as stated: a directive is instantiated on an element, and its local *)
(* refs are kept, exactly when the element is not created between a         *)
(* disableBindings() and the matching enableBindings(); and matching is     *)
(* enabled after resetComponentState.                                       *)
C29_SuppressedBetweenMatchingCalls ==
  SuppressedExactlyInside /\ EnabledAfterReset

(* The same for creation blocks in which no ngNonBindable element is        *)
(* created inside another one.                                              *)
SuppressedWithoutNesting ==
  (\A i \in DOMAIN createdElements :
     ~(createdElements[i].nonBindable /\ createdElements[i].inside))
  => SuppressedExactlyInside

(* A directive was instantiated on an element inside an ngNonBindable       *)
(* element that is still open and disabled: an inner ngNonBindable element  *)
(* before it has enabled bindings again.                                    *)
C29_Witness ==
  /\ Len(createdElements) = 3
  /\ createdElements[1].nonBindable /\ ~createdElements[1].inside
  /\ createdElements[2].nonBindable /\ createdElements[2].inside
  /\ createdElements[3].directive /\ createdElements[3].inside
  /\ createdElements[3].instantiated
  /\ openElements[1].phase = "disabled"

----------------------------------------------------------------------------
(* Properties of the style binding with a suffix, checked under SpecSuffix. *)

(* The text of a bound value.                                               *)
textOf(value) ==
  CASE value = "100" -> "100"
    [] value = JsNumber("200") -> "200"
    [] value = JsNumber("0") -> "0"

(* What a write leaves in the slot of its writer.                           *)
written_value(w) ==
  IF w.value = Null THEN Null
  ELSE IF w.suffix = "" THEN w.value
  ELSE CASE w.suffix = "px" /\ textOf(w.value) = "100" -> "100px"
         [] w.suffix = "px" /\ textOf(w.value) = "200" -> "200px"
         [] w.suffix = "px" /\ textOf(w.value) = "0" -> "0px"

----------------------------------------------------------------------------
(* Properties of the class toggle, checked under SpecToggle.                *)

(* JavaScript truthiness of the bound values.                               *)
truthy(value) == value \in {"true", "a_string", JsNumber("10")}

(* What a class write leaves in the slot of its writer.                     *)
written_class(value) ==
  CASE value = "true" -> "true"
    [] value = "false" -> "false"
    [] value \in {"a_string", JsNumber("10")} -> "true"
    [] value \in {"", JsNumber("0"), Null, Undefined} -> Null

----------------------------------------------------------------------------
(* Properties of the pipes of a template, checked under SpecPipes.          *)

(* The entries of the template visited so far that belong to `scope`.       *)
visitedIn(scope) ==
  SelectSeq([i \in 1..Len(pipeTemplate) |-> i],
            LAMBDA i : pipeTemplate[i].scope = scope)

(* Those of them that are pipe references.                                  *)
refsIn(scope) ==
  SelectSeq(visitedIn(scope), LAMBDA i : pipeTemplate[i].kind = "pipe")

(* Number of entries of the same template function visited before entry i.  *)
entriesBefore(i) ==
  Cardinality({j \in 1..(i - 1) : pipeTemplate[j].scope = pipeTemplate[i].scope})

pipesOf(scope) ==
  SelectSeq(pipeCreation[scope], LAMBDA instr : instr.op = "pipe")

(* C32: in each template function every pipe reference visited so far has   *)
(* one pipe instruction in the creation block, in the order the references  *)
(* were met and with the data slot that was free when the reference was     *)
(* met; the slots of different references differ, also when they name the   *)
(* same pipe; the pipeBind of the reference in the update block carries     *)
(* the slot of its pipe instruction, and nothing else allocates a slot.     *)
C32_PipeRegisteredOncePerReference ==
  \A scope \in TemplateScopes :
    LET refs == refsIn(scope)
        pipes == pipesOf(scope)
    IN /\ Len(pipes) = Len(refs)
       /\ Len(pipeUpdate[scope]) = Len(refs)
       /\ dataSlots[scope] = Len(visitedIn(scope))
       /\ \A k \in DOMAIN refs :
            /\ pipes[k].name = pipeTemplate[refs[k]].name
            /\ pipes[k].slot = entriesBefore(refs[k])
            /\ pipeUpdate[scope][k].slot = pipes[k].slot
            /\ pipeUpdate[scope][k].name = pipes[k].name
       /\ \A k, l \in DOMAIN pipes : k # l => pipes[k].slot # pipes[l].slot

(* The original reading by pipe name: a template function holds at most one *)
(* pipe instruction per pipe name.                                          *)
C32_OneSlotPerPipeName ==
  \A scope \in TemplateScopes :
    \A k, l \in DOMAIN pipesOf(scope) :
      pipesOf(scope)[k].name = pipesOf(scope)[l].name => k = l

(* The element with four references to `pipe` is compiled: pipe(1, "pipe")  *)
(* to pipe(4, "pipe") after the element at slot 0, and the pipeBind calls   *)
(* with the slots 1 to 4.                                                   *)
C32_Witness ==
  /\ pipeTemplate =
       [i \in 1..5 |->
          IF i = 1 THEN NodeEntry("MyComponent_Template")
          ELSE PipeRef("MyComponent_Template", "pipe")]
  /\ pipesOf("MyComponent_Template") =
       [k \in 1..4 |-> PipeInstruction(k, "pipe")]
  /\ pipeUpdate["MyComponent_Template"] = [k \in 1..4 |-> PipeBind(k, "pipe")]

----------------------------------------------------------------------------
(* Properties of the registration into the styling context, checked under   *)
(* SpecRegistration.                                                        *)

(* The directives whose host bindings function has called                   *)
(* elementHostStyling, in the order the functions ran.                      *)
styledSoFar ==
  LET ran == SelectSeq(hostRan, LAMBDA h : h.styled)
  IN [i \in 1..Len(ran) |-> ran[i].directive]

(* The directives of the registered sets of binding names, in order.        *)
registeredOrder ==
  IF stylingTNode.stylingTemplate = <<>> THEN <<>>
  ELSE [i \in 1..Len(stylingTNode.stylingTemplate[1].bindings) |->
          stylingTNode.stylingTemplate[1].bindings[i].directive]

queuedOrder ==
  [i \in 1..Len(stylingTNode.onElementCreationFns) |->
     stylingTNode.onElementCreationFns[i].directive]

AllocatedAtOnce ==
  IF stylingTNode.stylingTemplate = <<>>
    THEN styledSoFar = <<>> /\ ~templateStyled
    ELSE stylingTNode.stylingTemplate[1].registry = <<Template>> \o styledSoFar

NamesDeferred ==
  elementPhase # "ended" =>
    /\ queuedOrder = styledSoFar
    /\ registeredOrder = IF templateStyled THEN <<Template>> ELSE <<>>

NamesRegisteredInOrder ==
  elementPhase = "ended" =>
    /\ queuedOrder = <<>>
    /\ registeredOrder =
         (IF templateStyled THEN <<Template>> ELSE <<>>) \o styledSoFar

TemplateFirst ==
  templateStyled => registeredOrder # <<>> /\ registeredOrder[1] = Template

(* C33: the binding names of the template are registered by elementStyling  *)
(* itself and are the first set of bindings of the context; each            *)
(* elementHostStyling allocates its directive into the registry at once, in *)
(* the order the host bindings functions run, and queues the registration   *)
(* of its binding names, which happens at the end of the element in the     *)
(* same order.                                                              *)
C33_RegistrationOrder ==
  /\ AllocatedAtOnce
  /\ NamesDeferred
  /\ NamesRegisteredInOrder
  /\ TemplateFirst

(* Two directives with styling host bindings ran before the template's      *)
(* elementStyling; after elementEnd the template's names are first and the  *)
(* directives' names follow in the order of the registry.                   *)
C33_Witness ==
  /\ elementPhase = "ended"
  /\ templateStyled
  /\ styledSoFar = <<Dir2, Dir1>>
  /\ registeredOrder = <<Template, Dir2, Dir1>>
  /\ stylingTNode.stylingTemplate[1].registry = <<Template, Dir2, Dir1>>

----------------------------------------------------------------------------
(* Properties of context discovery, checked under SpecDiscovery.            *)

(* What the runtime created, with the LView that holds it; the span is not  *)
(* a root element and is not patched at creation.                           *)
viewOfTarget(target) ==
  CASE target \in {"div", "span"} -> ChildView
    [] target \in {"manuallyCreatedElement", "elm1"} -> Null
    [] OTHER -> ParentView

CreatedByRuntime == {t \in DiscoveryTargets : viewOfTarget(t) # Null}

(* The element child-comp, its component and its directives.                *)
OnSameElement ==
  {"child-comp", "childComponentInstance", "myDir1Instance", "myDir2Instance"}

Rendered(patch) == patch["child-comp"] # NotPatched

(* A patch is nothing, the LView of the target or an LContext of that       *)
(* LView.                                                                   *)
PatchedWithOwnView ==
  \A t \in DiscoveryTargets :
    /\ monkeyPatch[t].kind = "lView" =>
         monkeyPatch[t].lView = viewOfTarget(t) /\ t # "span"
    /\ monkeyPatch[t].kind = "context" =>
         /\ monkeyPatch[t].context \in DOMAIN lContexts
         /\ lContexts[monkeyPatch[t].context].lView = viewOfTarget(t)
    /\ (Rendered(monkeyPatch) /\ t \in CreatedByRuntime \ {"span"}) =>
         monkeyPatch[t].kind # "none"

(* The last call: a context for what the runtime created, the one already   *)
(* patched when there is one; null and no change for any other target.      *)
CallReturnsPatchedContext ==
  \A i \in DOMAIN discoveryLog :
    LET w == discoveryLog[i]
    IN IF w.target \in CreatedByRuntime /\ Rendered(w.before.patch)
         THEN /\ w.result # NoContext
              /\ monkeyPatch[w.target] = PatchedContext(w.result)
              /\ lContexts[w.result].lView = viewOfTarget(w.target)
              /\ w.before.patch[w.target].kind = "lView" =>
                   lContexts[w.result].lView = w.before.patch[w.target].lView
              /\ w.before.patch[w.target].kind = "context" =>
                   /\ w.result = w.before.patch[w.target].context
                   /\ monkeyPatch = w.before.patch
                   /\ lContexts = w.before.contexts
         ELSE /\ w.result = NoContext
              /\ monkeyPatch = w.before.patch
              /\ lContexts = w.before.contexts

(* One LContext per native node, shared by what sits on the element.        *)
OneContextPerElement ==
  /\ \A c, d \in DOMAIN lContexts :
       lContexts[c].native = lContexts[d].native => c = d
  /\ \A t, u \in OnSameElement :
       (monkeyPatch[t].kind = "context" /\ monkeyPatch[u].kind = "context")
         => monkeyPatch[t].context = monkeyPatch[u].context

PatchKept ==
  \A t \in DiscoveryTargets :
    monkeyPatch[t].kind = "context" => monkeyPatch'[t] = monkeyPatch[t]

(* C34: a root element, component or directive created by the runtime is    *)
(* patched with its LView at first; after the first getLContext call on it  *)
(* its patch is an LContext of that LView, which the call returns; every    *)
(* later call returns the same LContext and a patch never goes back to an   *)
(* LView; the                                                               *)
(* DOM node, the component and the directives of one element share one      *)
(* LContext; for a node the runtime did not create getLContext returns      *)
(* null and patches nothing.                                                *)
C34_LContextCached ==
  /\ [](PatchedWithOwnView /\ CallReturnsPatchedContext /\ OneContextPerElement)
  /\ [][PatchKept]_vars

(* getLContext was called on the element, on a directive and last on the    *)
(* component: the four of them are patched with the one LContext, which     *)
(* now holds the component and both directives.                             *)
C34_Witness ==
  /\ discoveryLog # <<>>
  /\ discoveryLog[1].target = "childComponentInstance"
  /\ discoveryLog[1].before.patch["childComponentInstance"].kind = "lView"
  /\ discoveryLog[1].before.patch["child-comp"].kind = "context"
  /\ Len(lContexts) = 1
  /\ \A t \in OnSameElement : monkeyPatch[t] = PatchedContext(1)
  /\ lContexts[1].component = "childComponentInstance"
  /\ lContexts[1].directives = <<<<"myDir1Instance", "myDir2Instance">>>>

----------------------------------------------------------------------------
(* Properties of nested enterView / leaveView calls, checked under          *)
(* SpecViewStack.                                                           *)

(* The state enterView(newView, hostTNode) leaves behind, whoever called    *)
(* it: enterView itself or leaveView without an error.                      *)
EnteredState(w) ==
  /\ viewState.lView = w.newView
  /\ viewState.contextLView = w.newView
  /\ viewState.previousOrParentTNode = w.hostTNode
  /\ viewState.isParent = TRUE
  /\ viewState.bindingRootIndex =
       IF w.newView # Null
         THEN (CASE w.newView = AppView -> 2 [] w.newView = EmbeddedView -> 1)
         ELSE w.before.bindingRootIndex

(* The view on top of the open calls, null when none is open.               *)
viewOnTop == IF callers = <<>> THEN Null ELSE callers[Len(callers)].view

(* Every open call holds the view that was current when it entered.         *)
ProperlyNested ==
  /\ viewState.lView = viewOnTop
  /\ \A k \in DOMAIN callers :
       callers[k].oldView = IF k = 1 THEN Null ELSE callers[k - 1].view

(* C35: enterView(newView, hostTNode) returns the view that was current;    *)
(* after it the current view and the context view are newView, the node     *)
(* cursor is hostTNode and isParent is true, and the binding root index is  *)
(* the bindingStartIndex of newView, or unchanged for a null newView.       *)
(* leaveView(old) without a throwing hook makes old the current view        *)
(* again, so that, as long as no hook has thrown, the current view is the   *)
(* one entered last among the open calls at any nesting depth.              *)
C35_EnterViewPostconditions ==
  /\ \A i \in DOMAIN stateLog :
       LET w == stateLog[i]
       IN /\ (w.op = "enterView") =>
               (w.returned = w.before.lView /\ EnteredState(w))
          /\ (w.op = "leaveView" /\ ~w.thrown) =>
               /\ EnteredState(w)
               /\ viewState.previousOrParentTNode = Null
  /\ ~hookThrew => ProperlyNested

(* Three calls were nested, the App view entered again from the embedded    *)
(* view, and the innermost has been left: the embedded view is the current  *)
(* view again, with the cursor null and isParent true.                      *)
C35_Witness ==
  /\ ~hookThrew
  /\ callers = <<Caller(Null, AppView), Caller(AppView, EmbeddedView)>>
  /\ stateLog # <<>>
  /\ stateLog[1].op = "leaveView"
  /\ stateLog[1].before.lView = AppView
  /\ stateLog[1].before.isParent = FALSE
  /\ stateLog[1].before.contextLView = EmbeddedView
  /\ stateLog[1].before.bindingRootIndex = 2
  /\ viewState.lView = EmbeddedView
  /\ viewState.contextLView = EmbeddedView
  /\ viewState.bindingRootIndex = 1

(* C36: when leaveView is called on a view in update mode and a view hook   *)
(* throws, the Dirty and FirstLViewPass flags of the view being left are    *)
(* cleared and its binding index is back at bindingStartIndex, while the    *)
(* current view, the context view, the node cursor, isParent and the        *)
(* binding root index keep the values they had before the call, and the     *)
(* error leaves the call; a view in creation mode runs no hook.             *)
C36_ThrowingHookKeepsView ==
  \A i \in DOMAIN stateLog :
    LET w == stateLog[i]
        left == w.before.lView
    IN (w.op = "leaveView") =>
         /\ w.thrown => "CreationMode" \notin w.before.views[left].flags
         /\ w.thrown =>
              /\ viewState.views[left].flags
                   = w.before.views[left].flags \ {"Dirty", "FirstLViewPass"}
              /\ viewState.views[left].bindingIndex
                   = (CASE left = AppView -> 2 [] left = EmbeddedView -> 1)
              /\ \A v \in ViewIds \ {left} : viewState.views[v] = w.before.views[v]
              /\ viewState.lView = w.before.lView
              /\ viewState.contextLView = w.before.contextLView
              /\ viewState.previousOrParentTNode = w.before.previousOrParentTNode
              /\ viewState.isParent = w.before.isParent
              /\ viewState.bindingRootIndex = w.before.bindingRootIndex

(* A hook threw while a dirty view with advanced binding index was left for *)
(* another view: the flags and the index are reset and the view is still    *)
(* the current one.                                                         *)
C36_Witness ==
  /\ stateLog # <<>>
  /\ stateLog[1].op = "leaveView"
  /\ stateLog[1].thrown
  /\ stateLog[1].newView = AppView
  /\ stateLog[1].before.lView = EmbeddedView
  /\ "Dirty" \in stateLog[1].before.views[EmbeddedView].flags
  /\ "FirstLViewPass" \in stateLog[1].before.views[EmbeddedView].flags
  /\ stateLog[1].before.views[EmbeddedView].bindingIndex = 2
  /\ viewState.lView = EmbeddedView
  /\ viewState.views[EmbeddedView].bindingIndex = 1
  /\ viewState.views[EmbeddedView].flags = {"CheckAlways"}

----------------------------------------------------------------------------
(* The operations a TypeCheckContext has recorded.                          *)

opsOf(map, fileName) == IF has(map, fileName) THEN map[fileName] ELSE <<>>

(* How many of the operations pending for the file of the class are op.     *)
pendingCopies(op) ==
  Cardinality({i \in DOMAIN opsOf(recordedOps, op.node.file) :
                 opsOf(recordedOps, op.node.file)[i] = op})

templateCalls(node) ==
  {i \in DOMAIN recordCalls :
     recordCalls[i].call = "addTemplate" /\ recordCalls[i].node = node}

(* The (addTemplate call, directive used by its template) pairs of a        *)
(* directive: the calls whose template uses it.                             *)
usesOf(dirNode) ==
  {i \in DOMAIN recordCalls :
     /\ recordCalls[i].call = "addTemplate"
     /\ \E j \in DOMAIN recordCalls[i].dirs : recordCalls[i].dirs[j] = dirNode}

directCalls(dirNode, meta) ==
  {i \in DOMAIN recordCalls :
     /\ recordCalls[i].call = "addTypeCtor"
     /\ recordCalls[i].node = dirNode
     /\ recordCalls[i].meta = meta}

RecFileNames == {"cmp.ts", "lib.d.ts"}

(* Every pending operation is a type-check block of a component or a type   *)
(* constructor of a directive, queued for the file that declares the class. *)
OpsInDeclaringFile ==
  /\ DOMAIN recordedOps \subseteq RecFileNames
  /\ \A f \in DOMAIN recordedOps : \A i \in DOMAIN recordedOps[f] :
       /\ recordedOps[f][i].node.file = f
       /\ \/ \E node \in RecComponents :
               recordedOps[f][i] = TcbOp(node, tcbMeta(node))
          \/ \E dirNode \in RecDirectives : \E meta \in CtorMetas :
               recordedOps[f][i] = TypeCtorOp(dirNode, meta)

(* The constructor addTemplate records for a directive is named ngTypeCtor  *)
(* and has a body unless the directive is declared in a .d.ts file.         *)
templateCtor(dirNode) ==
  TypeCtorOp(dirNode,
             [fnName |-> "ngTypeCtor", body |-> dirNode.file # "lib.d.ts"])

----------------------------------------------------------------------------
(* The original text in the transformed file.                               *)

originalChars(text) == SelectSeq(text, LAMBDA c : c.at >= 0)

(* How many original characters stand before a position of a text.          *)
originalsBefore(text, p) == Len(originalChars(SubSeq(text, 1, p - 1)))

(* The position of the newline that ends the import lines: the first        *)
(* generated newline.                                                       *)
importsEnd(text) ==
  CHOOSE p \in DOMAIN text :
    /\ text[p] = Char("\n", -1)
    /\ \A q \in 1..(p - 1) : text[q] # Char("\n", -1)

(* The positions of the generated snippets: the generated characters after  *)
(* the import lines.                                                        *)
snippetsAt(text) ==
  {p \in DOMAIN text : p > importsEnd(text) /\ text[p].at = -1}

sharesSplitPoint(ops) ==
  \E i, j \in DOMAIN ops : i # j /\ splitPoint(ops[i]) = splitPoint(ops[j])

splitsBeyondEnd(ops, text) ==
  \E i \in DOMAIN ops : splitPoint(ops[i]) > Len(text)

TextPreserved(call) ==
  /\ \E p \in DOMAIN call.result.text : call.result.text[p] = Char("\n", -1)
  /\ \A q \in 1..importsEnd(call.result.text) : call.result.text[q].at = -1
  /\ originalChars(call.result.text) = call.sf.text
  /\ Cardinality(snippetsAt(call.result.text)) = Len(call.ops)
  /\ \A i \in DOMAIN call.ops :
       Cardinality(generatedAt(call.result.text, call.ops[i]))
         = Cardinality({j \in DOMAIN call.ops : call.ops[j] = call.ops[i]})
  /\ \A p \in snippetsAt(call.result.text) :
       \E i \in DOMAIN call.ops :
         /\ p \in generatedAt(call.result.text, call.ops[i])
         /\ originalsBefore(call.result.text, p)
              = clamp(splitPoint(call.ops[i]), Len(call.sf.text))

(* C38: the result of transform for a file with pending operations is      *)
(* generated import lines ended by a generated newline, followed by the     *)
(* original text with one snippet per operation inserted at the             *)
(* operation's split point (at the end of the text when the split point is  *)
(* beyond it), so in ascending split-point order; without the generated     *)
(* characters it is the original text, every character once and in its     *)
(* original order.                                                          *)
C38_TransformPreservesText ==
  \A i \in DOMAIN transformResult :
    transformResult[i].ops # <<>> => TextPreserved(transformResult[i])

(* b.ts is transformed with three operations pending, two of them with the  *)
(* same split point and one with a split point beyond the end of the text.  *)
C38_Witness ==
  /\ transformResult # <<>>
  /\ transformResult[1].sf.fileName = "b.ts"
  /\ Len(transformResult[1].ops) = 3
  /\ sharesSplitPoint(transformResult[1].ops)
  /\ splitsBeyondEnd(transformResult[1].ops, transformResult[1].sf.text)
  /\ originalChars(transformResult[1].result.text) = SourceFile("b.ts").text
  /\ Len(transformResult[1].result.text) > Len(SourceFile("b.ts").text) + 3

----------------------------------------------------------------------------
(* The values a map instruction hands to the directives' inputs.            *)

theElement == inputElement[1]

templateMapCall == mapCall # <<>> /\ ~mapCall[1].host

hostMapCall == mapCall # <<>> /\ mapCall[1].host

(* The value the claim gives an input: the initial values, when there are   *)
(* any, a separator, and the bound value as a string.                       *)
InitialThenBound(value, initial, bound) ==
  IF initial = "" THEN value = bound
  ELSE \E separator \in {"", " ", ";"} : value = initial \o separator \o bound

ClassInputDelegated ==
  (templateMapCall /\ hasClassInput(theElement.tNode)
     /\ mapCall[1].classes # NO_CHANGE)
    => /\ "class" \in theElement.inputsSet
       /\ InitialThenBound(theElement.inputValues["class"],
                           joinStrings(theElement.stylingContext.initialClasses, " "),
                           forceClassesAsString(mapCall[1].classes))
       /\ theElement.updated.classes = NO_CHANGE

StyleInputDelegated ==
  (templateMapCall /\ hasStyleInput(theElement.tNode)
     /\ mapCall[1].styles # NO_CHANGE)
    => /\ "style" \in theElement.inputsSet
       /\ InitialThenBound(theElement.inputValues["style"],
                           getInitialStyleStringValue(theElement.stylingContext),
                           forceStylesAsString(mapCall[1].styles))
       /\ theElement.updated.styles = NO_CHANGE

(* Without the input, or with NO_CHANGE, a template call hands the value    *)
(* to the styling context and sets no input.                                *)
NotDelegatedOtherwise ==
  templateMapCall =>
    /\ (~hasClassInput(theElement.tNode) \/ mapCall[1].classes = NO_CHANGE)
         => /\ "class" \notin theElement.inputsSet
            /\ theElement.updated.classes = mapCall[1].classes
    /\ (~hasStyleInput(theElement.tNode) \/ mapCall[1].styles = NO_CHANGE)
         => /\ "style" \notin theElement.inputsSet
            /\ theElement.updated.styles = mapCall[1].styles

(* A host-level call sets no input and hands both values to the styling     *)
(* context under the host directive.                                        *)
HostNeverDelegates ==
  hostMapCall =>
    /\ theElement.inputsSet = {}
    /\ theElement.updated = [classes |-> mapCall[1].classes,
                             styles |-> mapCall[1].styles,
                             directive |-> HostDirective]

(* C39, as stated: after a template-level elementStylingMap on an element   *)
(* with a style input and styles other than NO_CHANGE, the input has        *)
(* received the element's initial styles followed by the bound styles as a  *)
(* string, and the styling context NO_CHANGE for styles; likewise for the   *)
(* class input with the initial class names; a host-level call sets no      *)
(* input.                                                                    *)
C39_MapDelegatesToInputs ==
  /\ StyleInputDelegated
  /\ ClassInputDelegated
  /\ HostNeverDelegates

(* What holds of the class input, of the values handed to the styling       *)
(* context and of host-level calls.                                         *)
ClassesDelegatedAndHostNever ==
  /\ ClassInputDelegated
  /\ NotDelegatedOtherwise
  /\ HostNeverDelegates
  /\ (templateMapCall /\ hasStyleInput(theElement.tNode)
        /\ mapCall[1].styles # NO_CHANGE)
       => /\ "style" \in theElement.inputsSet
          /\ theElement.updated.styles = NO_CHANGE

(* The element <div class="apple orange" DirWithStyle> without static       *)
(* styles: elementStylingMap(0, null, {width: '200px', height: '500px'})    *)
(* has set the style input to the class names and the styles.               *)
C39_Witness ==
  /\ templateMapCall
  /\ hasStyleInput(theElement.tNode)
  /\ theElement.stylingContext.initialClasses = <<"apple", "orange">>
  /\ theElement.stylingContext.initialStyles = <<>>
  /\ mapCall[1].styles =
       StyleMap(<<StyleEntry("width", "200px"), StyleEntry("height", "500px")>>)
  /\ theElement.inputValues["style"] = "apple orange width:200px;height:500px"
  /\ theElement.updated.styles = NO_CHANGE

----------------------------------------------------------------------------
(* Specifications.                                                          *)

(* The element of the styling part before its creation block has run, with *)
(* the bindings its template and directives were compiled with; the App     *)
(* component of the view part before its first render; no di fixture yet;  *)
(* an empty Bloom filter; no template test running.                         *)
Init ==
  /\ pc = "create"
  /\ registry = <<>>
  /\ slots = [c \in Contributors |-> [p \in Props |-> Null]]
  /\ forcedBy = [p \in Props |-> None]
  /\ native = [style |-> [p \in StyleProps |-> Null], classes |-> {}]
  /\ exprs = [c \in Contributors |-> [width |-> Null, two |-> Null, xyz |-> Null]]
  /\ bindings \in {StyleElement, ClassPropElement}
  /\ important \in Contributors \cup {None}
  /\ everBound = FALSE
  /\ activeHostContext = Null
  /\ renderStep = "idle"
  /\ lView = Null
  /\ contextLView = Null
  /\ previousOrParentTNode = Null
  /\ isParent = FALSE
  /\ bindingRootIndex = -1
  /\ views = [v \in ViewIds |->
               IF v = AppView THEN createLView(v)
               ELSE [createLView(v) EXCEPT !.created = FALSE]]
  /\ oldView = Null
  /\ ctxTitle = "Hello"
  /\ dom = [el \in {"span", "b"} |-> NotCreated]
  /\ rendererCalls = 0
  /\ passKind = "none"
  /\ lastTitle = None
  /\ manual = [el \in {"span", "b"} |-> None]
  /\ app = None
  /\ diStep = "idle"
  /\ nodeCursor = 1
  /\ dirCursor = 1
  /\ nodeInjector = <<>>
  /\ stack = <<>>
  /\ log = <<>>
  /\ diError = NoError
  /\ mockTView = mockTViewData
  /\ bloomAdded = {}
  /\ running = None
  /\ ctxValue = None
  /\ templateStep = 0
  /\ ngPrivateData = NoObject
  /\ tObjects = <<>>
  /\ hostView = Null
  /\ lViews = [v \in TemplateViewIds |-> noLView]
  /\ globals = noGlobals
  /\ patchData = [el \in NativeNames |-> Null]
  /\ ngDevMode = ngDevModeResetPerfCounters
  /\ oldData = noOldData
  /\ firstValue = None
  /\ viewsLeft = {}
  /\ vcTest = None
  /\ lContainer = <<>>
  /\ hostChildren = <<>>
  /\ nextViewId = 1
  /\ destroyedViews = {}
  /\ cmptItems = <<>>
  /\ cmptValue = FALSE
  /\ pendingUpdate = FALSE
  /\ insertCount = 0
  /\ prevContainer = <<>>
  /\ srcFiles = <<>>
  /\ compUnit = 0
  /\ visitCursor = 0
  /\ dataIndex = <<>>
  /\ contextName = <<>>
  /\ resultSource = <<>>
  /\ walkState = [lView |-> Null, contextLView |-> Null,
                  previousOrParentTNode |-> Null, isParent |-> FALSE,
                  bindingRootIndex |-> -1]
  /\ savedView = Null
  /\ updateBlock = <<>>
  /\ contextLog = <<>>
  /\ elementAttrs = <<>>
  /\ attrCursor = 0
  /\ stylingBuilder = newStylingBuilder
  /\ creationInstrs = <<>>
  /\ updateInstrs = <<>>
  /\ sanTest = Null
  /\ sanValue = Plain("")
  /\ sanSlot = Plain("NO_CHANGE")
  /\ hostAttrs = Null
  /\ opMap = <<>>
  /\ transformResult = <<>>
  /\ componentState = [isParent |-> Null, previousOrParentTNode |-> Null,
                       elementDepthCount |-> Null, bindingsEnabled |-> Null]
  /\ openElements = <<>>
  /\ createdElements = <<>>
  /\ suffixStyling = [registry |-> <<>>,
                      slots |-> [c \in Contributors |-> [p \in Props |-> Null]],
                      forcedBy |-> [p \in Props |-> None],
                      native |-> [style |-> [p \in StyleProps |-> Null],
                                  classes |-> {}]]
  /\ suffixWrite = <<>>
  /\ toggleStyling = [registry |-> <<>>,
                      slots |-> [c \in Contributors |-> [p \in Props |-> Null]],
                      forcedBy |-> [p \in Props |-> None],
                      native |-> [style |-> [p \in StyleProps |-> Null],
                                  classes |-> {}]]
  /\ toggleWrite = <<>>
  /\ pipeTemplate = <<>>
  /\ dataSlots = [s \in TemplateScopes |-> 0]
  /\ pipeCreation = [s \in TemplateScopes |-> <<>>]
  /\ pipeUpdate = [s \in TemplateScopes |-> <<>>]
  /\ stylingTNode = [stylingTemplate |-> <<>>, onElementCreationFns |-> <<>>]
  /\ hostDirectives = <<>>
  /\ hostRan = <<>>
  /\ elementPhase = "none"
  /\ templateStyled = FALSE
  /\ monkeyPatch = [t \in DiscoveryTargets |-> NotPatched]
  /\ lContexts = <<>>
  /\ discoveryLog = <<>>
  /\ viewState = [lView |-> Null, contextLView |-> Null,
                  previousOrParentTNode |-> Null, isParent |-> FALSE,
                  bindingRootIndex |-> -1,
                  views |-> [v \in ViewIds |-> createLView(v)]]
  /\ callers = <<>>
  /\ stateLog = <<>>
  /\ hookThrew = FALSE
  /\ recordedOps = <<>>
  /\ recordCalls = <<>>
  /\ inputElement = <<>>
  /\ mapCall = <<>>

SpecStyling == Init /\ [][StylingNext]_vars

SpecViews == Init /\ [][ViewNext]_vars

SpecDI == Init /\ [][DINext]_vars

SpecBloom == Init /\ [][BloomNext]_vars

SpecTemplates == Init /\ [][TemplatesNext]_vars

SpecContainers == Init /\ [][ContainersNext]_vars

SpecCompiler == Init /\ [][CompilerNext]_vars

SpecContext == Init /\ [][ContextNext]_vars

SpecStylingCompiler == Init /\ [][StylingCompilerNext]_vars

SpecSanitization == Init /\ [][SanitizationNext]_vars

SpecTypeCheck == Init /\ [][TypeCheckNext]_vars

SpecBindings == Init /\ [][BindingsNext]_vars

SpecSuffix == Init /\ [][SuffixNext]_vars

SpecToggle == Init /\ [][ToggleNext]_vars

SpecPipes == Init /\ [][PipesNext]_vars

SpecRegistration == Init /\ [][RegistrationNext]_vars

SpecDiscovery == Init /\ [][DiscoveryNext]_vars

SpecViewStack == Init /\ [][ViewStackNext]_vars

SpecRecording == Init /\ [][RecordingNext]_vars

SpecDelegation == Init /\ [][DelegationNext]_vars

====
